---- MODULE Spec2Model ----
(***************************************************************************)
(* A model of the Game Boy emulator core: the bank controller, the timer,  *)
(* the PPU mode machine, the bus (MMU), the CPU's interrupt dispatch and   *)
(* cycle accounting, and the motherboard step.                             *)
(*                                                                         *)
(* The machine state is held in two records that mirror the ownership in   *)
(* the source: mmu (MemoryManagementUnit and every device it owns) and cpu *)
(* (Cpu and its register file).  Bus reads and writes are operators on the *)
(* mmu record, so that a handler that makes several bus accesses (a push,  *)
(* an OAM DMA) is one composed update.  A Rust panic is recorded in the    *)
(* field mmu.fault; a faulted machine takes no further step.               *)
(*                                                                         *)
(* RAMs are zero-initialised in the source; each is held as the function   *)
(* from the offsets that hold a non-zero byte to that byte (MemGet,        *)
(* MemSet), which represents the whole array exactly.                      *)
(***************************************************************************)
EXTENDS Integers, Sequences, FiniteSets, TLC

VARIABLES
    mmu,    \* MemoryManagementUnit: cartridge, gpu, timer, hdma, IF, IE, ...
    cpu,    \* Cpu: register file, halted, enable_interrupts
    apu,    \* Apu: mixer and channel registers, their units, the sample queue
    host,   \* the threads sharing the sample queue, and the mutex around it
    last,   \* observation: the operation performed last, its inputs and result
    pre,    \* observation: the fields of the state the last operation started from
    fed     \* observation: clocks fed so far (scenario specifications)

vars == <<mmu, cpu, apu, host, last, pre, fed>>

---------------------------------------------------------------------------
(* Bytes, words and bit operations                                         *)

Byte == 0..255

\* u8 / u16 wrapping arithmetic
U8(x) == x % 256

U16(x) == x % 65536

\* bit n of v
Bit(v, n) == (v \div (2 ^ n)) % 2

RECURSIVE AndBits(_, _, _)
AndBits(a, b, n) ==
    IF n = 0 THEN 0
    ELSE (a % 2) * (b % 2) + 2 * AndBits(a \div 2, b \div 2, n - 1)

\* a & b on 16-bit operands
BitAnd(a, b) == AndBits(a, b, 16)

\* a | b
BitOr(a, b) == a + b - BitAnd(a, b)

\* v & !(1 << n)
ClearBit(v, n) == v - Bit(v, n) * (2 ^ n)

\* v | (1 << n)
SetBit(v, n) == v + (1 - Bit(v, n)) * (2 ^ n)

\* The number of the highest bit set in a
HighestSetBit(a) == CHOOSE n \in 0..15 : a \div (2 ^ n) = 1

RECURSIVE TrailingZeros(_)
\* u8::trailing_zeros (8 for 0)
TrailingZeros(a) ==
    IF a = 0 THEN 8
    ELSE IF a % 2 = 1 THEN 0
    ELSE 1 + TrailingZeros(a \div 2)

\* A zero-initialised byte array, held as its non-zero entries.
MemGet(m, i) == IF i \in DOMAIN m THEN m[i] ELSE 0

MemSet(m, i, v) ==
    IF v = 0
    THEN [x \in (DOMAIN m) \ {i} |-> m[x]]
    ELSE [x \in (DOMAIN m) \cup {i} |-> IF x = i THEN v ELSE m[x]]

EmptyMem == [x \in {} |-> 0]

\* The value a faulted (panicked) read yields in the model.
Fault == 0 - 1

---------------------------------------------------------------------------
(* Clock divider (clock.rs)                                                *)

ClockPowerUp(period) == [period |-> period, n |-> 0]

\* Clock::next: the new clock and the number of ticks emitted
ClockNext(c, cycles) ==
    [clock |-> [c EXCEPT !.n = (c.n + cycles) % c.period],
     rs    |-> (c.n + cycles) \div c.period]

---------------------------------------------------------------------------
(* Cartridge: ROM image, RomOnly and Mbc1 (cartridge.rs)                   *)

\* The ROM image of the fixture.  Bank 0 holds the test program: interrupt
\* handlers at the five vectors (RETI at 0x40, 0x50, 0x60; RET at 0x48,
\* 0x58) and, at the entry point 0x0100,
\*     0100  LD A,0x42
\*     0102  HALT
\*     0103  EI
\*     0104  JR -4        (back to 0102)
\* Every other byte of bank 0 is 0x00 (NOP; header byte 0x0143 = 0 selects
\* DMG).  A byte of bank b >= 1 at offset o is (3*b + o) mod 256, so that
\* banks and offsets can be told apart.
Program ==
    (\h0040 :> \hD9) @@ (\h0048 :> \hC9) @@ (\h0050 :> \hD9) @@
    (\h0058 :> \hC9) @@ (\h0060 :> \hD9) @@
    (\h0100 :> \h3E) @@ (\h0101 :> \h42) @@ (\h0102 :> \h76) @@
    (\h0103 :> \hFB) @@ (\h0104 :> \h18) @@ (\h0105 :> \hFC)

RomByte(i) ==
    IF i \in DOMAIN Program THEN Program[i]
    ELSE IF i < \h4000 THEN 0
    ELSE (3 * (i \div \h4000) + (i % \h4000)) % 256

\* self.rom[i]: an index past the end of the vector panics
RomIndex(c, i) == IF i < c.rom_len THEN RomByte(i) ELSE Fault

\* self.ram[i]
RamIndex(c, i) == IF i < c.ram_len THEN MemGet(c.ram, i) ELSE Fault

\* self.ram[i] = v
RamStore(c, i, v) ==
    IF i < c.ram_len THEN [c EXCEPT !.ram = MemSet(@, i, v)]
    ELSE [c EXCEPT !.fault = TRUE]

\* RomOnly::power_up, Mbc1::power_up, Mbc2::power_up, Mbc3::power_up,
\* Mbc5::power_up and HuC1::power_up, with the vectors' lengths.  One record
\* holds the fields of all the controllers (bank_mode and bank are Mbc1's,
\* rom_bank and ram_bank those of Mbc2, Mbc3 and Mbc5, rtc is Mbc3's).
\* elapsed is the host's wall clock less RealTimeClock.zero, in seconds.
CartPowerUp(kind, rom_len, ram_len) ==
    [kind       |-> kind,
     rom_len    |-> rom_len,
     ram_len    |-> ram_len,
     ram        |-> EmptyMem,
     bank_mode  |-> "Rom",
     bank       |-> \h01,
     rom_bank   |-> 1,
     ram_bank   |-> 0,
     rtc        |-> [s |-> 0, m |-> 0, h |-> 0, dl |-> 0, dh |-> 0],
     elapsed    |-> 0,
     ram_enable |-> FALSE,
     fault      |-> FALSE]

\* impl Memory for RomOnly
RomOnlyGet(c, a) == RomIndex(c, a)

RomOnlySet(c, a, v) == c

\* Mbc1::rom_bank
Mbc1RomBank(c) ==
    IF c.bank_mode = "Rom" THEN BitAnd(c.bank, \h7f) ELSE BitAnd(c.bank, \h1f)

\* The RAM bank taken from bits 5-6 whatever the mode
Mbc1RamBankAnyMode(c) == BitAnd(c.bank, \h60) \div 32

\* Mbc1::ram_bank
Mbc1RamBank(c) ==
    IF c.bank_mode = "Rom" THEN \h00 ELSE BitAnd(c.bank, \h60) \div 32

\* Mbc1::get
Mbc1Get(c, a) ==
    CASE a \in \h0000..\h3fff -> RomIndex(c, a)
      [] a \in \h4000..\h7fff -> RomIndex(c, Mbc1RomBank(c) * \h4000 + a - \h4000)
      [] a \in \ha000..\hbfff ->
            IF c.ram_enable
            THEN RamIndex(c, Mbc1RamBank(c) * \h2000 + a - \ha000)
            ELSE 0
      [] OTHER -> 0

\* The low five bits taken as written, without the translation of 0
Mbc1LowBitsAsWritten(v) == BitAnd(v, \h1f)

\* Mbc1::set, 0x2000..=0x3fff: the low five bits of the bank, 0 read as 1
Mbc1LowBits(v) == IF BitAnd(v, \h1f) = \h00 THEN \h01 ELSE BitAnd(v, \h1f)

\* Mbc1::set, 0x4000..=0x5fff: self.bank & 0x9f | (n << 5) with n = v & 0x03
Mbc1HighBits(bank, v) == BitOr(BitAnd(bank, \h9f), BitAnd(v, \h03) * 32)

\* Mbc1::set
Mbc1Set(c, a, v) ==
    CASE a \in \ha000..\hbfff ->
            IF c.ram_enable
            THEN RamStore(c, Mbc1RamBank(c) * \h2000 + a - \ha000, v)
            ELSE c
      [] a \in \h0000..\h1fff -> [c EXCEPT !.ram_enable = (BitAnd(v, \h0f) = \h0a)]
      [] a \in \h2000..\h3fff ->
            [c EXCEPT !.bank = BitOr(BitAnd(c.bank, \h60), Mbc1LowBits(v))]
      [] a \in \h4000..\h5fff -> [c EXCEPT !.bank = Mbc1HighBits(c.bank, v)]
      [] a \in \h6000..\h7fff ->
            IF v = \h00 THEN [c EXCEPT !.bank_mode = "Rom"]
            ELSE IF v = \h01 THEN [c EXCEPT !.bank_mode = "Ram"]
            ELSE [c EXCEPT !.fault = TRUE]
      [] OTHER -> c

\* impl Memory for Mbc2: get
Mbc2Get(c, a) ==
    CASE a \in \h0000..\h3fff -> RomIndex(c, a)
      [] a \in \h4000..\h7fff -> RomIndex(c, c.rom_bank * \h4000 + a - \h4000)
      [] a \in \ha000..\ha1ff -> IF c.ram_enable THEN RamIndex(c, a - \ha000) ELSE 0
      [] OTHER -> 0

\* impl Memory for Mbc2: set, with "let v = v & 0x0f" first
Mbc2Set(c, a, v) ==
    CASE a \in \ha000..\ha1ff ->
            IF c.ram_enable THEN RamStore(c, a - \ha000, BitAnd(v, \h0f)) ELSE c
      [] a \in \h0000..\h1fff ->
            IF BitAnd(a, \h0100) = 0
            THEN [c EXCEPT !.ram_enable = (BitAnd(v, \h0f) = \h0a)] ELSE c
      [] a \in \h2000..\h3fff ->
            IF BitAnd(a, \h0100) # 0
            THEN [c EXCEPT !.rom_bank = BitAnd(v, \h0f)] ELSE c
      [] OTHER -> c

\* impl Memory for RealTimeClock: get
RtcGet(rtc, a) ==
    CASE a = \h08 -> rtc.s [] a = \h09 -> rtc.m [] a = \h0a -> rtc.h
      [] a = \h0b -> rtc.dl [] a = \h0c -> rtc.dh [] OTHER -> Fault

\* impl Memory for RealTimeClock: set on the cartridge that holds the clock
RtcSet(c, a, v) ==
    CASE a = \h08 -> [c EXCEPT !.rtc.s = v]
      [] a = \h09 -> [c EXCEPT !.rtc.m = v]
      [] a = \h0a -> [c EXCEPT !.rtc.h = v]
      [] a = \h0b -> [c EXCEPT !.rtc.dl = v]
      [] a = \h0c -> [c EXCEPT !.rtc.dh = v]
      [] OTHER -> [c EXCEPT !.fault = TRUE]

\* RealTimeClock::tic, d seconds after zero
RtcTic(rtc, d) ==
    [s  |-> d % 60,
     m  |-> (d \div 60) % 60,
     h  |-> (d \div 3600) % 24,
     dl |-> ((d \div 3600) \div 24) % 256,
     dh |-> IF (d \div 3600) \div 24 <= \h00ff THEN rtc.dh
            ELSE IF (d \div 3600) \div 24 <= \h01ff THEN BitOr(rtc.dh, \h01)
            ELSE BitOr(rtc.dh, \h81)]

\* impl Memory for Mbc3: get
Mbc3Get(c, a) ==
    CASE a \in \h0000..\h3fff -> RomIndex(c, a)
      [] a \in \h4000..\h7fff -> RomIndex(c, c.rom_bank * \h4000 + a - \h4000)
      [] a \in \ha000..\hbfff ->
            IF ~c.ram_enable THEN 0
            ELSE IF c.ram_bank <= \h03
            THEN RamIndex(c, c.ram_bank * \h2000 + a - \ha000)
            ELSE RtcGet(c.rtc, c.ram_bank)
      [] OTHER -> 0

\* impl Memory for Mbc3: set
Mbc3Set(c, a, v) ==
    CASE a \in \ha000..\hbfff ->
            IF ~c.ram_enable THEN c
            ELSE IF c.ram_bank <= \h03
            THEN RamStore(c, c.ram_bank * \h2000 + a - \ha000, v)
            ELSE RtcSet(c, c.ram_bank, v)
      [] a \in \h0000..\h1fff -> [c EXCEPT !.ram_enable = (BitAnd(v, \h0f) = \h0a)]
      [] a \in \h2000..\h3fff ->
            [c EXCEPT !.rom_bank = IF BitAnd(v, \h7f) = 0 THEN 1 ELSE BitAnd(v, \h7f)]
      [] a \in \h4000..\h5fff -> [c EXCEPT !.ram_bank = BitAnd(v, \h0f)]
      [] a \in \h6000..\h7fff ->
            IF BitAnd(v, \h01) # 0 THEN [c EXCEPT !.rtc = RtcTic(@, c.elapsed)] ELSE c
      [] OTHER -> c

\* impl Memory for Mbc5: get
Mbc5Get(c, a) ==
    CASE a \in \h0000..\h3fff -> RomIndex(c, a)
      [] a \in \h4000..\h7fff -> RomIndex(c, c.rom_bank * \h4000 + a - \h4000)
      [] a \in \ha000..\hbfff ->
            IF c.ram_enable
            THEN RamIndex(c, c.ram_bank * \h2000 + a - \ha000)
            ELSE 0
      [] OTHER -> 0

\* impl Memory for Mbc5: set
Mbc5Set(c, a, v) ==
    CASE a \in \ha000..\hbfff ->
            IF c.ram_enable
            THEN RamStore(c, c.ram_bank * \h2000 + a - \ha000, v)
            ELSE c
      [] a \in \h0000..\h1fff -> [c EXCEPT !.ram_enable = (BitAnd(v, \h0f) = \h0a)]
      [] a \in \h2000..\h2fff ->
            [c EXCEPT !.rom_bank = BitOr(BitAnd(@, \h100), v)]
      [] a \in \h3000..\h3fff ->
            [c EXCEPT !.rom_bank = BitOr(BitAnd(@, \h0ff), BitAnd(v, \h01) * 256)]
      [] a \in \h4000..\h5fff -> [c EXCEPT !.ram_bank = BitAnd(v, \h0f)]
      [] OTHER -> c

\* Box<dyn Cartridge>: dispatch on the controller (HuC1 wraps an Mbc1)
CartGet(c, a) ==
    CASE c.kind = "RomOnly" -> RomOnlyGet(c, a)
      [] c.kind \in {"Mbc1", "HuC1"} -> Mbc1Get(c, a)
      [] c.kind = "Mbc2" -> Mbc2Get(c, a)
      [] c.kind = "Mbc3" -> Mbc3Get(c, a)
      [] c.kind = "Mbc5" -> Mbc5Get(c, a)

CartSet(c, a, v) ==
    CASE c.kind = "RomOnly" -> RomOnlySet(c, a, v)
      [] c.kind \in {"Mbc1", "HuC1"} -> Mbc1Set(c, a, v)
      [] c.kind = "Mbc2" -> Mbc2Set(c, a, v)
      [] c.kind = "Mbc3" -> Mbc3Set(c, a, v)
      [] c.kind = "Mbc5" -> Mbc5Set(c, a, v)

\* const NINTENDO_LOGO: [u8; 48], indexed from 1
NINTENDO_LOGO ==
    << \hCE, \hED, \h66, \h66, \hCC, \h0D, \h00, \h0B, \h03, \h73, \h00, \h83,
       \h00, \h0C, \h00, \h0D, \h00, \h08, \h11, \h1F, \h88, \h89, \h00, \h0E,
       \hDC, \hCC, \h6E, \hE6, \hDD, \hDD, \hD9, \h99, \hBB, \hBB, \h67, \h63,
       \h6E, \h0E, \hEC, \hCC, \hDD, \hDC, \h99, \h9F, \hBB, \hB9, \h33, \h3E >>

\* rom_size (Fault for the panic)
RomSize(b) ==
    CASE b \in \h00..\h08 -> 16384 * (2 ^ (b + 1))
      [] b = \h52 -> 16384 * 72
      [] b = \h53 -> 16384 * 80
      [] b = \h54 -> 16384 * 96
      [] OTHER -> Fault

\* ram_size (Fault for the panic)
RamSize(b) ==
    CASE b = \h00 -> 0
      [] b = \h01 -> 1024 * 2
      [] b = \h02 -> 1024 * 8
      [] b = \h03 -> 1024 * 32
      [] b = \h04 -> 1024 * 128
      [] b = \h05 -> 1024 * 64
      [] OTHER -> Fault

\* power_up, "match rom[0x0147]": the controller built for the type byte
CartKind(b) ==
    CASE b = \h00 -> "RomOnly"
      [] b \in \h01..\h03 -> "Mbc1"
      [] b \in \h05..\h06 -> "Mbc2"
      [] b \in \h0f..\h13 -> "Mbc3"
      [] b \in \h19..\h1b -> "Mbc5"
      [] b = \hff -> "HuC1"
      [] OTHER -> "Unsupported"

\* power_up, "match rom[0x0147]": the length of the RAM vector built for
\* the type byte b, s being the RAM size byte (Fault when ram_size panics).
\* No save file is present.
CartRamLen(b, s) ==
    CASE b \in {\h00, \h01, \h0f, \h11, \h19} -> 0
      [] b \in {\h05, \h06} -> 512
      [] OTHER -> RamSize(s)

\* mbc_info: the type bytes it names; it panics on the others
MbcInfoTypes ==
    (\h00..\h03) \cup {\h05, \h06, \h08, \h09} \cup (\h0b..\h0d) \cup (\h0f..\h13)
    \cup (\h15..\h17) \cup (\h19..\h1f) \cup {\hfc, \hfd, \hfe}

\* A logo check that compares the first byte only
EnsureLogoFirstByte(rom) == MemGet(rom, \h0104) = NINTENDO_LOGO[1]

\* ensure_logo: whether it passes on the image bytes rom
EnsureLogo(rom) ==
    \A i \in 0..47 : MemGet(rom, \h0104 + i) = NINTENDO_LOGO[i + 1]

RECURSIVE HeaderChecksum(_, _, _)
\* ensure_header_checksum, the loop "for i in 0x0134..0x014d" from i on
HeaderChecksum(rom, i, v) ==
    IF i >= \h014d THEN v
    ELSE HeaderChecksum(rom, i + 1, U8(U8(v + 256 - MemGet(rom, i)) + 256 - 1))

\* ensure_header_checksum: whether it passes
EnsureHeaderChecksum(rom) == MemGet(rom, \h014d) = HeaderChecksum(rom, \h0134, 0)

\* cartridge::power_up on a file of len bytes whose non-zero bytes are
\* rom: the panic it ends in, or "Ok" with the controller it built.  debug
\* tells whether the logger evaluates the arguments of rog::debugln!.
CartridgePowerUp(rom, len, debug) ==
    LET b == MemGet(rom, \h0147)
    IN  [outcome |->
             IF len < \h150 THEN "MissingHeader"
             ELSE IF RomSize(MemGet(rom, \h0148)) = Fault THEN "UnsupportedRomSize"
             ELSE IF len > RomSize(MemGet(rom, \h0148)) THEN "RomTooLong"
             ELSE IF CartKind(b) = "Unsupported" THEN "UnsupportedType"
             ELSE IF CartRamLen(b, MemGet(rom, \h0149)) = Fault THEN "UnsupportedRamSize"
             ELSE IF debug /\ b \notin MbcInfoTypes THEN "UnsupportedType"
             ELSE IF ~EnsureLogo(rom) THEN "BadLogo"
             ELSE IF ~EnsureHeaderChecksum(rom) THEN "BadChecksum"
             ELSE "Ok",
         cart |-> CartPowerUp(CartKind(b), len, CartRamLen(b, MemGet(rom, \h0149)))]

---------------------------------------------------------------------------
(* Interrupt flag bits (intf.rs)                                           *)

FlagVBlank == 0

FlagLCDStat == 1

FlagTimer == 2

FlagSerial == 3

FlagJoypad == 4

\* Intf::hi
IntfHi(data, flag) == BitOr(data, 2 ^ flag)

---------------------------------------------------------------------------
(* Timer (timer.rs)                                                        *)

\* Timer::power_up
TimerPowerUp ==
    [div |-> 0, tima |-> 0, tma |-> 0, tac |-> 0,
     div_clock |-> ClockPowerUp(256),
     tma_clock |-> ClockPowerUp(1024)]

\* Timer::get
TimerGet(t, a) ==
    CASE a = \hff04 -> t.div
      [] a = \hff05 -> t.tima
      [] a = \hff06 -> t.tma
      [] a = \hff07 -> t.tac
      [] OTHER -> Fault

\* Timer::set, 0xff07: the period selected by bits 1-0
TacPeriod(v) ==
    CASE BitAnd(v, \h03) = \h00 -> 1024
      [] BitAnd(v, \h03) = \h01 -> 16
      [] BitAnd(v, \h03) = \h02 -> 64
      [] OTHER -> 256

\* The write of TAC that changes the period but leaves TIMA alone
TimerSetTacKeepingTima(t, v) ==
    IF BitAnd(t.tac, \h03) # BitAnd(v, \h03)
    THEN [t EXCEPT !.tma_clock = [period |-> TacPeriod(v), n |-> 0], !.tac = v]
    ELSE [t EXCEPT !.tac = v]

\* The write of TAC that selects the period and reloads TIMA but leaves
\* the accumulator alone
TimerSetTacKeepingClock(t, v) ==
    IF BitAnd(t.tac, \h03) # BitAnd(v, \h03)
    THEN [t EXCEPT !.tma_clock.period = TacPeriod(v), !.tima = t.tma, !.tac = v]
    ELSE [t EXCEPT !.tac = v]

\* Timer::set, 0xff07
TimerSetTac(t, v) ==
    IF BitAnd(t.tac, \h03) # BitAnd(v, \h03)
    THEN [t EXCEPT !.tma_clock = [period |-> TacPeriod(v), n |-> 0],
                   !.tima = t.tma,
                   !.tac = v]
    ELSE [t EXCEPT !.tac = v]

\* Timer::set (the addresses the bus routes here)
TimerSet(t, a, v) ==
    CASE a = \hff04 -> [t EXCEPT !.div = \h00, !.div_clock.n = \h00]
      [] a = \hff05 -> [t EXCEPT !.tima = v]
      [] a = \hff06 -> [t EXCEPT !.tma = v]
      [] a = \hff07 -> TimerSetTac(t, v)

\* TIMA after one increment that wraps to 0x00 instead of reloading TMA
TimaIncrementWrapping(tima, tma) == U8(tima + 1)

\* Timer::next, one pass of the loop body: TIMA after one increment
TimaIncrement(tima, tma) == IF U8(tima + 1) = \h00 THEN tma ELSE U8(tima + 1)

RECURSIVE TimaAdvance(_, _, _)
\* Timer::next, the loop "for _ in 0..n": TIMA and whether it overflowed
TimaAdvance(tima, tma, n) ==
    IF n = 0 THEN [tima |-> tima, overflow |-> FALSE]
    ELSE LET r == TimaAdvance(TimaIncrement(tima, tma), tma, n - 1)
         IN  [tima |-> r.tima, overflow |-> r.overflow \/ U8(tima + 1) = \h00]

\* Timer::next: the new timer and the interrupt bits it raises
TimerNext(t, cycles) ==
    LET d  == ClockNext(t.div_clock, cycles)
        t1 == [t EXCEPT !.div = U8(t.div + U8(d.rs)), !.div_clock = d.clock]
    IN  IF BitAnd(t.tac, \h04) # \h00
        THEN LET c == ClockNext(t.tma_clock, cycles)
                 r == TimaAdvance(t.tima, t.tma, c.rs)
             IN  [timer     |-> [t1 EXCEPT !.tma_clock = c.clock, !.tima = r.tima],
                  interrupt |-> IF r.overflow THEN 2 ^ FlagTimer ELSE 0]
        ELSE [timer |-> t1, interrupt |-> 0]

---------------------------------------------------------------------------
(* PPU (gpu.rs): registers, VRAM, OAM and the mode machine.  Of the frame *)
(* buffer the model keeps whether every pixel is white, as power_up and    *)
(* the LCD switch-off leave it ("white"), or a scanline has been rendered  *)
(* since ("drawn"); the pixels draw_bg and draw_sprites compute are not    *)
(* part of the model.                                                      *)

\* Gpu::power_up (Lcdc::power_up, Stat::power_up, Bgpi::power_up)
GpuPowerUp(term) ==
    [data |-> "white", term |-> term,
     lcdc |-> 72,
     enable_ly_interrupt |-> FALSE, enable_m2_interrupt |-> FALSE,
     enable_m1_interrupt |-> FALSE, enable_m0_interrupt |-> FALSE,
     mode |-> 0,
     h_blank |-> FALSE, v_blank |-> FALSE,
     sy |-> 0, sx |-> 0, wy |-> 0, wx |-> 0, ly |-> 0, lc |-> 0,
     bgp |-> 0, op0 |-> 0, op1 |-> 1,
     cbgpi |-> [i |-> 0, auto_increment |-> FALSE],
     cobpi |-> [i |-> 0, auto_increment |-> FALSE],
     cbgpd |-> EmptyMem, cobpd |-> EmptyMem,
     ram |-> EmptyMem, ram_bank |-> 0,
     oam |-> EmptyMem,
     dots |-> 0,
     fault |-> FALSE]

\* Lcdc::bit7
LcdcBit7(g) == BitAnd(g.lcdc, 128) # 0

\* Gpu::next, the number of passes of the loop: (cycles - 1) / 80 + 1
GpuBatches(cycles) == ((cycles - 1) \div 80) + 1

\* Gpu::next, the dots added in pass i of c
GpuBatchDots(cycles, i, c) == IF i = c - 1 THEN cycles % 80 ELSE 80

\* Gpu::next, "Render scanline": whether draw_bg or draw_sprites runs
Renders(g) ==
    g.term = "GBC" \/ BitAnd(g.lcdc, \h01) # 0 \/ BitAnd(g.lcdc, \h02) # 0

\* Gpu::next, the body of the loop for a pass that adds `add` dots.  s is
\* [gpu, interrupt]: the PPU and the interrupt bits raised so far.
GpuPass(s, add) ==
    LET g    == s.gpu
        d    == g.dots + add
        dots == d % 456
        ly   == IF d # dots THEN (g.ly + 1) % 154 ELSE g.ly
        i1   == IF d # dots /\ g.enable_ly_interrupt /\ ly = g.lc
                THEN IntfHi(s.interrupt, FlagLCDStat) ELSE s.interrupt
        g1   == [g EXCEPT !.dots = dots, !.ly = ly]
    IN  IF ly >= 144
        THEN IF g1.mode = 1 THEN [gpu |-> g1, interrupt |-> i1]
             ELSE [gpu |-> [g1 EXCEPT !.mode = 1, !.v_blank = TRUE],
                   interrupt |->
                       IF g1.enable_m1_interrupt
                       THEN IntfHi(IntfHi(i1, FlagVBlank), FlagLCDStat)
                       ELSE IntfHi(i1, FlagVBlank)]
        ELSE IF dots <= 80
        THEN IF g1.mode = 2 THEN [gpu |-> g1, interrupt |-> i1]
             ELSE [gpu |-> [g1 EXCEPT !.mode = 2],
                   interrupt |->
                       IF g1.enable_m2_interrupt
                       THEN IntfHi(i1, FlagLCDStat) ELSE i1]
        ELSE IF dots <= 80 + 172
        THEN [gpu |-> [g1 EXCEPT !.mode = 3], interrupt |-> i1]
        ELSE IF g1.mode = 0 THEN [gpu |-> g1, interrupt |-> i1]
             ELSE [gpu |-> [g1 EXCEPT !.mode = 0, !.h_blank = TRUE,
                                      !.data = IF Renders(g1) THEN "drawn" ELSE @],
                   interrupt |->
                       IF g1.enable_m0_interrupt
                       THEN IntfHi(i1, FlagLCDStat) ELSE i1]

RECURSIVE GpuLoop(_, _, _, _)
\* Gpu::next, the loop "for i in 0..c"
GpuLoop(s, cycles, i, c) ==
    IF i >= c THEN s
    ELSE GpuLoop(GpuPass(s, GpuBatchDots(cycles, i, c)), cycles, i + 1, c)

\* Gpu::next: the new PPU and the interrupt bits it raises
GpuNext(g, cycles) ==
    IF ~LcdcBit7(g) THEN [gpu |-> g, interrupt |-> 0]
    ELSE IF cycles = 0
    THEN [gpu |-> [g EXCEPT !.h_blank = FALSE], interrupt |-> 0]
    ELSE GpuLoop([gpu |-> [g EXCEPT !.h_blank = FALSE], interrupt |-> 0],
                 cycles, 0, GpuBatches(cycles))

\* Bgpi::get
BgpiGet(p) == BitOr(IF p.auto_increment THEN \h80 ELSE \h00, p.i)

\* Bgpi::set
BgpiSet(v) == [i |-> BitAnd(v, \h3f), auto_increment |-> BitAnd(v, \h80) # \h00]

\* cbgpd[r][c][k] of a [[[u8; 3]; 4]; 8], as an offset
PalOffset(i, k) == ((i \div 8) * 4 + ((i \div 2) % 4)) * 3 + k

\* impl Memory for Gpu, get of 0xff69 / 0xff6b
PalGet(pd, i) ==
    IF BitAnd(i, \h01) = \h00
    THEN BitOr(MemGet(pd, PalOffset(i, 0)), U8(MemGet(pd, PalOffset(i, 1)) * 32))
    ELSE BitOr(MemGet(pd, PalOffset(i, 1)) \div 8, U8(MemGet(pd, PalOffset(i, 2)) * 4))

\* impl Memory for Gpu, set of 0xff69 / 0xff6b (the palette data)
PalSet(pd, i, v) ==
    IF BitAnd(i, \h01) = \h00
    THEN MemSet(MemSet(pd, PalOffset(i, 0), BitAnd(v, \h1f)),
                PalOffset(i, 1),
                BitOr(BitAnd(MemGet(pd, PalOffset(i, 1)), \h18), v \div 32))
    ELSE MemSet(MemSet(pd, PalOffset(i, 1),
                       BitOr(BitAnd(MemGet(pd, PalOffset(i, 1)), \h07),
                             BitAnd(v, \h03) * 8)),
                PalOffset(i, 2), BitAnd(v \div 4, \h1f))

\* impl Memory for Gpu, set of 0xff69 / 0xff6b (the index)
PalAdvance(p) ==
    IF p.auto_increment THEN [p EXCEPT !.i = BitAnd(p.i + 1, \h3f)] ELSE p

\* impl Memory for Gpu, get of 0xff41
StatGet(g) ==
    (IF g.enable_ly_interrupt THEN \h40 ELSE 0)
    + (IF g.enable_m2_interrupt THEN \h20 ELSE 0)
    + (IF g.enable_m1_interrupt THEN \h10 ELSE 0)
    + (IF g.enable_m0_interrupt THEN \h08 ELSE 0)
    + (IF g.ly = g.lc THEN \h04 ELSE 0)
    + g.mode

\* impl Memory for Gpu: get
GpuGet(g, a) ==
    CASE a \in \h8000..\h9fff -> MemGet(g.ram, g.ram_bank * \h2000 + a - \h8000)
      [] a \in \hfe00..\hfe9f -> MemGet(g.oam, a - \hfe00)
      [] a = \hff40 -> g.lcdc
      [] a = \hff41 -> StatGet(g)
      [] a = \hff42 -> g.sy
      [] a = \hff43 -> g.sx
      [] a = \hff44 -> g.ly
      [] a = \hff45 -> g.lc
      [] a = \hff47 -> g.bgp
      [] a = \hff48 -> g.op0
      [] a = \hff49 -> g.op1
      [] a = \hff4a -> g.wy
      [] a = \hff4b -> g.wx
      [] a = \hff4f -> BitOr(\hfe, g.ram_bank)
      [] a = \hff68 -> BgpiGet(g.cbgpi)
      [] a = \hff69 -> PalGet(g.cbgpd, g.cbgpi.i)
      [] a = \hff6a -> BgpiGet(g.cobpi)
      [] a = \hff6b -> PalGet(g.cobpd, g.cobpi.i)
      [] OTHER -> Fault

\* impl Memory for Gpu, set of 0xff40, storing the byte only
GpuSetLcdcOnly(g, v) == [g EXCEPT !.lcdc = v]

\* impl Memory for Gpu, set of 0xff40
GpuSetLcdc(g, v) ==
    IF BitAnd(v, \h80) = 0
    THEN [g EXCEPT !.lcdc = v, !.dots = 0, !.ly = 0, !.mode = 0,
                   !.data = "white", !.v_blank = TRUE]
    ELSE [g EXCEPT !.lcdc = v]

\* impl Memory for Gpu: set
GpuSet(g, a, v) ==
    CASE a \in \h8000..\h9fff ->
            [g EXCEPT !.ram = MemSet(@, g.ram_bank * \h2000 + a - \h8000, v)]
      [] a \in \hfe00..\hfe9f -> [g EXCEPT !.oam = MemSet(@, a - \hfe00, v)]
      [] a = \hff40 -> GpuSetLcdc(g, v)
      [] a = \hff41 ->
            [g EXCEPT !.enable_ly_interrupt = BitAnd(v, \h40) # 0,
                      !.enable_m2_interrupt = BitAnd(v, \h20) # 0,
                      !.enable_m1_interrupt = BitAnd(v, \h10) # 0,
                      !.enable_m0_interrupt = BitAnd(v, \h08) # 0]
      [] a = \hff42 -> [g EXCEPT !.sy = v]
      [] a = \hff43 -> [g EXCEPT !.sx = v]
      [] a = \hff44 -> g
      [] a = \hff45 -> [g EXCEPT !.lc = v]
      [] a = \hff47 -> [g EXCEPT !.bgp = v]
      [] a = \hff48 -> [g EXCEPT !.op0 = v]
      [] a = \hff49 -> [g EXCEPT !.op1 = v]
      [] a = \hff4a -> [g EXCEPT !.wy = v]
      [] a = \hff4b -> [g EXCEPT !.wx = v]
      [] a = \hff4f -> [g EXCEPT !.ram_bank = BitAnd(v, \h01)]
      [] a = \hff68 -> [g EXCEPT !.cbgpi = BgpiSet(v)]
      [] a = \hff69 ->
            [g EXCEPT !.cbgpd = PalSet(@, g.cbgpi.i, v),
                      !.cbgpi = PalAdvance(@)]
      [] a = \hff6a -> [g EXCEPT !.cobpi = BgpiSet(v)]
      [] a = \hff6b ->
            [g EXCEPT !.cobpd = PalSet(@, g.cobpi.i, v),
                      !.cobpi = PalAdvance(@)]
      [] OTHER -> [g EXCEPT !.fault = TRUE]

---------------------------------------------------------------------------
(* HDMA registers (gpu.rs)                                                 *)

\* Hdma::power_up
HdmaPowerUp ==
    [src |-> \h0000, dst |-> \h8000, active |-> FALSE, mode |-> "Gdma",
     remain |-> \h00]

\* impl Memory for Hdma: get (the addresses the bus routes here)
HdmaGet(h, a) ==
    CASE a = \hff51 -> h.src \div 256
      [] a = \hff52 -> h.src % 256
      [] a = \hff53 -> h.dst \div 256
      [] a = \hff54 -> h.dst % 256
      [] a = \hff55 -> BitOr(h.remain, IF h.active THEN \h00 ELSE \h80)
      [] OTHER -> Fault

\* impl Memory for Hdma: set, with the write to 0xFF55 ignored while the
\* H-blank transfer is active
HdmaSetNoStop(h, a, v) ==
    CASE a = \hff51 -> [h EXCEPT !.src = BitOr(v * 256, BitAnd(h.src, \h00ff))]
      [] a = \hff52 -> [h EXCEPT !.src = BitOr(BitAnd(h.src, \hff00), BitAnd(v, \hf0))]
      [] a = \hff53 ->
            [h EXCEPT !.dst = BitOr(\h8000,
                                   BitOr(BitAnd(v, \h1f) * 256, BitAnd(h.dst, \h00ff)))]
      [] a = \hff54 -> [h EXCEPT !.dst = BitOr(BitAnd(h.dst, \hff00), BitAnd(v, \hf0))]
      [] a = \hff55 ->
            IF h.active /\ h.mode = "Hdma"
            THEN h
            ELSE [h EXCEPT !.active = TRUE,
                           !.remain = BitAnd(v, \h7f),
                           !.mode = IF BitAnd(v, \h80) # \h00 THEN "Hdma" ELSE "Gdma"]

\* impl Memory for Hdma: set (the addresses the bus routes here)
HdmaSet(h, a, v) ==
    CASE a = \hff51 -> [h EXCEPT !.src = BitOr(v * 256, BitAnd(h.src, \h00ff))]
      [] a = \hff52 -> [h EXCEPT !.src = BitOr(BitAnd(h.src, \hff00), BitAnd(v, \hf0))]
      [] a = \hff53 ->
            [h EXCEPT !.dst = BitOr(\h8000,
                                   BitOr(BitAnd(v, \h1f) * 256, BitAnd(h.dst, \h00ff)))]
      [] a = \hff54 -> [h EXCEPT !.dst = BitOr(BitAnd(h.dst, \hff00), BitAnd(v, \hf0))]
      [] a = \hff55 ->
            IF h.active /\ h.mode = "Hdma"
            THEN IF BitAnd(v, \h80) = \h00 THEN [h EXCEPT !.active = FALSE] ELSE h
            ELSE [h EXCEPT !.active = TRUE,
                           !.remain = BitAnd(v, \h7f),
                           !.mode = IF BitAnd(v, \h80) # \h00 THEN "Hdma" ELSE "Gdma"]

---------------------------------------------------------------------------
(* Joypad and serial registers (joypad.rs, serial.rs)                      *)

\* Joypad::power_up
JoypadPowerUp == [matrix |-> \hff, select |-> \h00]

\* impl Memory for Joypad: get
JoypadGet(j) ==
    IF BitAnd(j.select, \h10) = \h00 THEN BitOr(j.select, BitAnd(j.matrix, \h0f))
    ELSE IF BitAnd(j.select, \h20) = \h00 THEN BitOr(j.select, j.matrix \div 16)
    ELSE j.select

\* impl Memory for Joypad: set
JoypadSet(j, v) == [j EXCEPT !.select = v]

\* Joypad::keydown, on the bus that owns the joypad and the interrupt flags
JoypadKeydown(m, key) ==
    [m EXCEPT !.joypad.matrix = BitAnd(@, \hff - key),
              !.interrupt = IntfHi(@, FlagJoypad)]

\* Joypad::keyup
JoypadKeyup(m, key) == [m EXCEPT !.joypad.matrix = BitOr(@, key)]

\* Serial::power_up
SerialPowerUp == [data |-> \h00, control |-> \h00]

\* Serial::get (the addresses the bus routes here)
SerialGet(sr, a) == IF a = \hff01 THEN sr.data ELSE sr.control

\* Serial::set (the addresses the bus routes here)
SerialSet(sr, a, v) ==
    IF a = \hff01 THEN [sr EXCEPT !.data = v] ELSE [sr EXCEPT !.control = v]

---------------------------------------------------------------------------
(* Bus (mmunit.rs)                                                         *)

\* Speed::Normal = 0x01, Speed::Double = 0x02
SpeedNormal == 1

SpeedDouble == 2

\* Whether a panic has happened in the bus or in a device behind it.
Faulted(m) == m.fault \/ m.cartridge.fault \/ m.gpu.fault

\* impl Memory for MemoryManagementUnit: get
MmuGet(m, a) ==
    CASE a \in \h0000..\h7fff -> CartGet(m.cartridge, a)
      [] a \in \h8000..\h9fff -> GpuGet(m.gpu, a)
      [] a \in \ha000..\hbfff -> CartGet(m.cartridge, a)
      [] a \in \hc000..\hcfff -> MemGet(m.wram, a - \hc000)
      [] a \in \hd000..\hdfff -> MemGet(m.wram, a - \hd000 + \h1000 * m.wram_bank)
      [] a \in \he000..\hefff -> MemGet(m.wram, a - \he000)
      [] a \in \hf000..\hfdff -> MemGet(m.wram, a - \hf000 + \h1000 * m.wram_bank)
      [] a \in \hfe00..\hfe9f -> GpuGet(m.gpu, a)
      [] a \in \hfea0..\hfeff -> \h00
      [] a = \hff00 -> JoypadGet(m.joypad)
      [] a \in \hff01..\hff02 -> SerialGet(m.serial, a)
      [] a \in \hff04..\hff07 -> TimerGet(m.timer, a)
      [] a = \hff0f -> m.interrupt
      [] a \in \hff10..\hff3f -> \h00
      [] a = \hff4d ->
            BitOr(IF m.speed = SpeedDouble THEN \h80 ELSE \h00,
                  IF m.shift THEN \h01 ELSE \h00)
      [] a \in (\hff40..\hff4f) \ {\hff4d} -> GpuGet(m.gpu, a)
      [] a \in \hff51..\hff55 -> HdmaGet(m.hdma, a)
      [] a \in \hff68..\hff6b -> GpuGet(m.gpu, a)
      [] a = \hff70 -> m.wram_bank
      [] a \in \hff80..\hfffe -> MemGet(m.hram, a - \hff80)
      [] a = \hffff -> m.enable_interrupts
      [] OTHER -> \h00

\* impl Memory for MemoryManagementUnit: set, every arm but 0xff46
MmuSetPlain(m, a, v) ==
    CASE a \in \h0000..\h7fff -> [m EXCEPT !.cartridge = CartSet(@, a, v)]
      [] a \in \h8000..\h9fff -> [m EXCEPT !.gpu = GpuSet(@, a, v)]
      [] a \in \ha000..\hbfff -> [m EXCEPT !.cartridge = CartSet(@, a, v)]
      [] a \in \hc000..\hcfff -> [m EXCEPT !.wram = MemSet(@, a - \hc000, v)]
      [] a \in \hd000..\hdfff ->
            [m EXCEPT !.wram = MemSet(@, a - \hd000 + \h1000 * m.wram_bank, v)]
      [] a \in \he000..\hefff -> [m EXCEPT !.wram = MemSet(@, a - \he000, v)]
      [] a \in \hf000..\hfdff ->
            [m EXCEPT !.wram = MemSet(@, a - \hf000 + \h1000 * m.wram_bank, v)]
      [] a \in \hfe00..\hfe9f -> [m EXCEPT !.gpu = GpuSet(@, a, v)]
      [] a \in \hfea0..\hfeff -> m
      [] a = \hff00 -> [m EXCEPT !.joypad = JoypadSet(@, v)]
      [] a \in \hff01..\hff02 -> [m EXCEPT !.serial = SerialSet(@, a, v)]
      [] a \in \hff04..\hff07 -> [m EXCEPT !.timer = TimerSet(@, a, v)]
      [] a \in \hff10..\hff3f -> m
      [] a = \hff4d -> [m EXCEPT !.shift = (BitAnd(v, \h01) = \h01)]
      [] a \in (\hff40..\hff4f) \ {\hff4d} -> [m EXCEPT !.gpu = GpuSet(@, a, v)]
      [] a \in \hff51..\hff55 -> [m EXCEPT !.hdma = HdmaSet(@, a, v)]
      [] a \in \hff68..\hff6b -> [m EXCEPT !.gpu = GpuSet(@, a, v)]
      [] a = \hff0f -> [m EXCEPT !.interrupt = v]
      [] a = \hff70 ->
            [m EXCEPT !.wram_bank = IF BitAnd(v, \h07) = 0 THEN 1 ELSE BitAnd(v, \h07)]
      [] a \in \hff80..\hfffe -> [m EXCEPT !.hram = MemSet(@, a - \hff80, v)]
      [] a = \hffff -> [m EXCEPT !.enable_interrupts = v]
      [] OTHER -> m

\* impl Memory for MemoryManagementUnit: set of 0xff46, the bytes the
\* loop "for i in 0..0xa0" reads.  Pass i reads base + i before it writes
\* OAM cell i, and only for base = 0xFE00 does it read OAM, the very cell
\* it is about to write: every pass reads what the bus held before the
\* copy.
OamDmaBytes(m, base) == [i \in 0..\h9f |-> MmuGet(m, base + i)]

\* impl Memory for MemoryManagementUnit: set of 0xff46: the 160 bytes
\* written to OAM through Gpu::set; a panicking read ends the copy
OamDma(m, base) ==
    LET b == OamDmaBytes(m, base)
    IN  IF \E i \in 0..\h9f : b[i] = Fault THEN [m EXCEPT !.fault = TRUE]
        ELSE [m EXCEPT !.gpu.oam = [i \in {j \in 0..\h9f : b[j] # 0} |-> b[i]]]

\* impl Memory for MemoryManagementUnit: set
MmuSet(m, a, v) ==
    IF a = \hff46 THEN OamDma(m, v * 256) ELSE MmuSetPlain(m, a, v)

\* Memory::get_word (a + 1 on u16)
MmuGetWord(m, a) ==
    LET lo == MmuGet(m, a)
        hi == MmuGet(m, U16(a + 1))
    IN  IF lo = Fault \/ hi = Fault THEN Fault ELSE BitOr(lo, hi * 256)

\* Memory::set_word
MmuSetWord(m, a, v) ==
    MmuSet(MmuSet(m, a, BitAnd(v, \hFF)), U16(a + 1), v \div 256)

\* MemoryManagementUnit::power_up, the registers written after construction
PowerUpWrites ==
    << <<\hff05, \h00>>, <<\hff06, \h00>>, <<\hff07, \h00>>, <<\hff10, \h80>>,
       <<\hff11, \hbf>>, <<\hff12, \hf3>>, <<\hff14, \hbf>>, <<\hff16, \h3f>>,
       <<\hff16, \h3f>>, <<\hff17, \h00>>, <<\hff19, \hbf>>, <<\hff1a, \h7f>>,
       <<\hff1b, \hff>>, <<\hff1c, \h9f>>, <<\hff1e, \hff>>, <<\hff20, \hff>>,
       <<\hff21, \h00>>, <<\hff22, \h00>>, <<\hff23, \hbf>>, <<\hff24, \h77>>,
       <<\hff25, \hf3>>, <<\hff26, \hf1>>, <<\hff40, \h91>>, <<\hff42, \h00>>,
       <<\hff43, \h00>>, <<\hff45, \h00>>, <<\hff47, \hfc>>, <<\hff48, \hff>>,
       <<\hff49, \hff>>, <<\hff4a, \h00>>, <<\hff4b, \h00>> >>

RECURSIVE MmuWriteAll(_, _, _)
\* the writes ws[i..] applied in order; a panic ends them
MmuWriteAll(m, ws, i) ==
    IF i > Len(ws) \/ Faulted(m) THEN m
    ELSE MmuWriteAll(MmuSet(m, ws[i][1], ws[i][2]), ws, i + 1)

\* MemoryManagementUnit::power_up
MmuPowerUp(cart) ==
    MmuWriteAll(
        [cartridge |-> cart,
         interrupt |-> \h00,
         gpu |-> GpuPowerUp(IF BitAnd(CartGet(cart, \h0143), \h80) = \h80 THEN "GBC" ELSE "GB"),
         joypad |-> JoypadPowerUp,
         serial |-> SerialPowerUp,
         shift |-> FALSE,
         speed |-> SpeedNormal,
         term |-> IF BitAnd(CartGet(cart, \h0143), \h80) = \h80 THEN "GBC" ELSE "GB",
         timer |-> TimerPowerUp,
         enable_interrupts |-> \h00,
         hdma |-> HdmaPowerUp,
         hram |-> EmptyMem,
         wram |-> EmptyMem,
         wram_bank |-> \h01,
         fault |-> FALSE],
        PowerUpWrites, 1)

\* MemoryManagementUnit::switch_speed, the speed it switches to
OtherSpeed(sp) == IF sp = SpeedDouble THEN SpeedNormal ELSE SpeedDouble

\* MemoryManagementUnit::switch_speed without the test of the flag
SwitchSpeedAlways(m) == [m EXCEPT !.speed = OtherSpeed(@), !.shift = FALSE]

\* MemoryManagementUnit::switch_speed
SwitchSpeed(m) ==
    IF m.shift
    THEN [m EXCEPT !.speed = IF m.speed = SpeedDouble THEN SpeedNormal ELSE SpeedDouble,
                   !.shift = FALSE]
    ELSE [m EXCEPT !.shift = FALSE]

RECURSIVE VramDmaCopy(_, _, _)
\* MemoryManagementUnit::perform_vramdma_row, the loop "for j in 0..0x10"
VramDmaCopy(m, mmu_src, j) ==
    IF j >= \h10 \/ Faulted(m) THEN m
    ELSE LET b == MmuGet(m, mmu_src + j)
         IN  IF b = Fault THEN [m EXCEPT !.fault = TRUE]
             ELSE VramDmaCopy([m EXCEPT !.gpu = GpuSet(@, m.hdma.dst + j, b)],
                              mmu_src, j + 1)

\* MemoryManagementUnit::perform_vramdma_row
VramDmaRow(m) ==
    LET m1 == VramDmaCopy(m, m.hdma.src, 0)
    IN  IF Faulted(m1) THEN m1
        ELSE [m1 EXCEPT !.hdma.src = U16(@ + \h10),
                        !.hdma.dst = U16(@ + \h10),
                        !.hdma.remain = IF @ = 0 THEN \h7F ELSE @ - 1]

RECURSIVE VramDmaRows(_, _)
\* MemoryManagementUnit::perform_gdma, the loop "for _i in 0..len"
VramDmaRows(m, n) ==
    IF n = 0 \/ Faulted(m) THEN m ELSE VramDmaRows(VramDmaRow(m), n - 1)

\* MemoryManagementUnit::perform_gdma: the new bus state and the stall
PerformGdma(m) ==
    LET len == m.hdma.remain + 1
    IN  [mmu |-> [VramDmaRows(m, len) EXCEPT !.hdma.active = FALSE],
         ticks |-> len * 8]

\* MemoryManagementUnit::perform_hdma
PerformHdma(m) ==
    IF ~m.gpu.h_blank THEN [mmu |-> m, ticks |-> 0]
    ELSE LET m1 == VramDmaRow(m)
         IN  [mmu |-> IF m1.hdma.remain = \h7F
                      THEN [m1 EXCEPT !.hdma.active = FALSE] ELSE m1,
              ticks |-> 8]

\* MemoryManagementUnit::perform_vramdma
PerformVramDma(m) ==
    IF ~m.hdma.active THEN [mmu |-> m, ticks |-> 0]
    ELSE IF m.hdma.mode = "Gdma" THEN PerformGdma(m)
    ELSE PerformHdma(m)

\* MemoryManagementUnit::do_cycle, the clocks handed to the PPU (and APU)
GpuTicks(ticks, cpudivider, vramticks) == (ticks \div cpudivider) + vramticks

\* MemoryManagementUnit::do_cycle, the clocks handed to the timer
CpuTicks(ticks, cpudivider, vramticks) == ticks + vramticks * cpudivider

\* MemoryManagementUnit::do_cycle, after the devices have run: t is the
\* result of Timer::next, g of Gpu::next; their interrupt bits are OR-ed
\* into IF.  No sound device is attached (sound: None, as after power_up);
\* the joypad and the serial port raise nothing on their own.
DoCycleJoin(m, t, g, gputicks) ==
    [mmu |-> [m EXCEPT !.timer = t.timer,
                       !.gpu = g.gpu,
                       !.interrupt = BitOr(BitOr(@, t.interrupt), g.interrupt)],
     gputicks |-> gputicks,
     raised |-> BitOr(t.interrupt, g.interrupt)]

\* MemoryManagementUnit::do_cycle, after perform_vramdma: d is its result
\* (the bus state and the stall)
DoCycleDevices(d, ticks, cpudivider) ==
    DoCycleJoin(d.mmu,
                TimerNext(d.mmu.timer, CpuTicks(ticks, cpudivider, d.ticks)),
                GpuNext(d.mmu.gpu, GpuTicks(ticks, cpudivider, d.ticks)),
                GpuTicks(ticks, cpudivider, d.ticks))

\* MemoryManagementUnit::do_cycle: the new bus state, the clocks handed to
\* the PPU (the return value) and the interrupt bits the devices raised
MmuDoCycle(m, ticks) == DoCycleDevices(PerformVramDma(m), ticks, m.speed)

---------------------------------------------------------------------------
(* CPU (cpu.rs); the register file (register.rs)                           *)

\* Register::power_up for the DMG: the post-boot values
RegisterPowerUp ==
    [a |-> \h01, f |-> \hb0, b |-> \h00, c |-> \h13, d |-> \h00, e |-> \hd8,
     h |-> \h01, l |-> \h4d, sp |-> \hfffe, pc |-> \h0100]

\* Flag: the bit of F that holds each flag (Z = 7, N = 6, H = 5, C = 4)
FlagBit(flag) ==
    CASE flag = "Z" -> 7 [] flag = "N" -> 6 [] flag = "H" -> 5 [] flag = "C" -> 4

\* Register::get_flag
GetFlag(reg, flag) == Bit(reg.f, FlagBit(flag)) = 1

\* Register::set_flag
SetFlag(reg, flag, v) ==
    [reg EXCEPT !.f = IF v THEN SetBit(@, FlagBit(flag)) ELSE ClearBit(@, FlagBit(flag))]

\* Register::get_hl
GetHl(reg) == reg.h * 256 + reg.l

\* const OP_CYCLES: [u32; 256], indexed from 1
OP_CYCLES ==
    << 1, 3, 2, 2, 1, 1, 2, 1, 5, 2, 2, 2, 1, 1, 2, 1,
       0, 3, 2, 2, 1, 1, 2, 1, 3, 2, 2, 2, 1, 1, 2, 1,
       2, 3, 2, 2, 1, 1, 2, 1, 2, 2, 2, 2, 1, 1, 2, 1,
       2, 3, 2, 2, 3, 3, 3, 1, 2, 2, 2, 2, 1, 1, 2, 1,
       1, 1, 1, 1, 1, 1, 2, 1, 1, 1, 1, 1, 1, 1, 2, 1,
       1, 1, 1, 1, 1, 1, 2, 1, 1, 1, 1, 1, 1, 1, 2, 1,
       1, 1, 1, 1, 1, 1, 2, 1, 1, 1, 1, 1, 1, 1, 2, 1,
       2, 2, 2, 2, 2, 2, 0, 2, 1, 1, 1, 1, 1, 1, 2, 1,
       1, 1, 1, 1, 1, 1, 2, 1, 1, 1, 1, 1, 1, 1, 2, 1,
       1, 1, 1, 1, 1, 1, 2, 1, 1, 1, 1, 1, 1, 1, 2, 1,
       1, 1, 1, 1, 1, 1, 2, 1, 1, 1, 1, 1, 1, 1, 2, 1,
       1, 1, 1, 1, 1, 1, 2, 1, 1, 1, 1, 1, 1, 1, 2, 1,
       2, 3, 3, 4, 3, 4, 2, 4, 2, 4, 3, 0, 3, 6, 2, 4,
       2, 3, 3, 0, 3, 4, 2, 4, 2, 4, 3, 0, 3, 0, 2, 4,
       3, 3, 2, 0, 0, 4, 2, 4, 4, 1, 4, 0, 0, 0, 2, 4,
       3, 3, 2, 1, 0, 4, 2, 4, 3, 2, 4, 1, 0, 0, 2, 4 >>

\* const CB_CYCLES: [u32; 256], indexed from 1
CB_CYCLES ==
    << 2, 2, 2, 2, 2, 2, 4, 2, 2, 2, 2, 2, 2, 2, 4, 2,
       2, 2, 2, 2, 2, 2, 4, 2, 2, 2, 2, 2, 2, 2, 4, 2,
       2, 2, 2, 2, 2, 2, 4, 2, 2, 2, 2, 2, 2, 2, 4, 2,
       2, 2, 2, 2, 2, 2, 4, 2, 2, 2, 2, 2, 2, 2, 4, 2,
       2, 2, 2, 2, 2, 2, 3, 2, 2, 2, 2, 2, 2, 2, 3, 2,
       2, 2, 2, 2, 2, 2, 3, 2, 2, 2, 2, 2, 2, 2, 3, 2,
       2, 2, 2, 2, 2, 2, 3, 2, 2, 2, 2, 2, 2, 2, 3, 2,
       2, 2, 2, 2, 2, 2, 3, 2, 2, 2, 2, 2, 2, 2, 3, 2,
       2, 2, 2, 2, 2, 2, 4, 2, 2, 2, 2, 2, 2, 2, 4, 2,
       2, 2, 2, 2, 2, 2, 4, 2, 2, 2, 2, 2, 2, 2, 4, 2,
       2, 2, 2, 2, 2, 2, 4, 2, 2, 2, 2, 2, 2, 2, 4, 2,
       2, 2, 2, 2, 2, 2, 4, 2, 2, 2, 2, 2, 2, 2, 4, 2,
       2, 2, 2, 2, 2, 2, 4, 2, 2, 2, 2, 2, 2, 2, 4, 2,
       2, 2, 2, 2, 2, 2, 4, 2, 2, 2, 2, 2, 2, 2, 4, 2,
       2, 2, 2, 2, 2, 2, 4, 2, 2, 2, 2, 2, 2, 2, 4, 2,
       2, 2, 2, 2, 2, 2, 4, 2, 2, 2, 2, 2, 2, 2, 4, 2 >>

\* Cpu::power_up.  not_implemented is the opcode named by the message of
\* the panic "Opcode 0x.. is not implemented" (Fault while none was raised).
CpuPowerUp ==
    [reg |-> RegisterPowerUp, halted |-> FALSE, enable_interrupts |-> TRUE,
     not_implemented |-> Fault]

\* The CPU and the bus it is wired to, as one value: s = [cpu, mmu].
\* Cpu::imm: the byte at PC (Fault if the read panics)
ImmByte(s) == MmuGet(s.mmu, s.cpu.reg.pc)

\* Cpu::imm: the state after the fetch
ImmNext(s) ==
    IF ImmByte(s) = Fault THEN [s EXCEPT !.mmu.fault = TRUE]
    ELSE [s EXCEPT !.cpu.reg.pc = U16(@ + 1)]

\* Cpu::imm_word: the word at PC
ImmWord(s) == MmuGetWord(s.mmu, s.cpu.reg.pc)

\* Cpu::imm_word: the state after the fetch
ImmWordNext(s) ==
    IF ImmWord(s) = Fault THEN [s EXCEPT !.mmu.fault = TRUE]
    ELSE [s EXCEPT !.cpu.reg.pc = U16(@ + 2)]

\* Cpu::stack_add
StackAdd(s, v) ==
    [s EXCEPT !.cpu.reg.sp = U16(@ + 65536 - 2),
              !.mmu = MmuSetWord(@, U16(s.cpu.reg.sp + 65536 - 2), v)]

\* Cpu::stack_pop: the state with PC loaded from the stack
StackPopPc(s) ==
    LET r == MmuGetWord(s.mmu, s.cpu.reg.sp)
    IN  IF r = Fault THEN [s EXCEPT !.mmu.fault = TRUE]
        ELSE [s EXCEPT !.cpu.reg.pc = r, !.cpu.reg.sp = U16(@ + 2)]

\* Cpu::alu_jr: PC plus the signed byte n
AluJr(pc, n) == U16(pc + (IF n >= 128 THEN n - 256 ELSE n) + 65536)

\* Cpu::handle_interrupts without "self.halted = false" on the return taken
\* when master-enable is clear
HandleInterruptsNoWake(s) ==
    IF ~s.cpu.enable_interrupts THEN [st |-> s, c |-> 0]
    ELSE LET intf == MmuGet(s.mmu, \hff0f)
             inte == MmuGet(s.mmu, \hffff)
             a    == BitAnd(intf, inte)
         IN  IF a = \h00 THEN [st |-> s, c |-> 0]
             ELSE LET n  == TrailingZeros(a)
                      s1 == [s EXCEPT !.cpu.halted = FALSE,
                                      !.cpu.enable_interrupts = FALSE,
                                      !.mmu = MmuSet(@, \hff0f, ClearBit(intf, n))]
                      s2 == StackAdd(s1, s.cpu.reg.pc)
                  IN  [st |-> [s2 EXCEPT !.cpu.reg.pc = BitOr(\h0040, n * 8)],
                       c  |-> 4]

\* Cpu::handle_interrupts: the new state and the returned count
HandleInterrupts(s) ==
    IF ~s.cpu.enable_interrupts /\ ~s.cpu.halted THEN [st |-> s, c |-> 0]
    ELSE LET intf == MmuGet(s.mmu, \hff0f)
             inte == MmuGet(s.mmu, \hffff)
             a    == BitAnd(intf, inte)
         IN  IF a = \h00 THEN [st |-> s, c |-> 0]
             ELSE IF ~s.cpu.enable_interrupts
             THEN [st |-> [s EXCEPT !.cpu.halted = FALSE], c |-> 0]
             ELSE LET n  == TrailingZeros(a)
                      s1 == [s EXCEPT !.cpu.halted = FALSE,
                                      !.cpu.enable_interrupts = FALSE,
                                      !.mmu = MmuSet(@, \hff0f, ClearBit(intf, n))]
                      s2 == StackAdd(s1, s.cpu.reg.pc)
                  IN  [st |-> [s2 EXCEPT !.cpu.reg.pc = BitOr(\h0040, n * 8)],
                       c  |-> 4]

\* Cpu::ex, "JUMP IF", "JR IF", "CALL IF" and "RET IF": the condition that
\* decides whether the branch is taken
BranchCond(opcode, reg) ==
    CASE opcode \in {\hc2, \h20, \hc4, \hc0} -> ~GetFlag(reg, "Z")
      [] opcode \in {\hca, \h28, \hcc, \hc8} -> GetFlag(reg, "Z")
      [] opcode \in {\hd2, \h30, \hd4, \hd0} -> ~GetFlag(reg, "C")
      [] opcode \in {\hda, \h38, \hdc, \hd8} -> GetFlag(reg, "C")

\* Cpu::ex, the panicking arms: the opcode their message names
\* (0xe4 => panic!("Opcode 0xd4 is not implemented"))
NotImplementedMessage(opcode) == IF opcode = \he4 THEN \hd4 ELSE opcode

\* The opcodes whose arms of Cpu::ex panic ("is not implemented")
InvalidOpcodes == {\hd3, \hdb, \hdd, \he3, \he4, \heb, \hec, \hed, \hf4, \hfc, \hfd}

\* The RST opcodes
RstOpcodes == {\hc7, \hcf, \hd7, \hdf, \he7, \hef, \hf7, \hff}

JpCcOpcodes == {\hc2, \hca, \hd2, \hda}

JrCcOpcodes == {\h20, \h28, \h30, \h38}

CallCcOpcodes == {\hc4, \hcc, \hd4, \hdc}

RetCcOpcodes == {\hc0, \hc8, \hd0, \hd8}

\* The arms of Cpu::ex that the model executes; the others (most loads,
\* ALU, rotates) are outside the model and are never fetched in it.
ModelledOpcodes ==
    {\h00, \h3e, \h06, \h08, \he0, \h76, \h10, \hf3, \hfb, \h37, \h3f, \hc3,
     \he9, \h18, \hcd, \hc9, \hd9, \hcb}
    \cup JpCcOpcodes \cup JrCcOpcodes \cup CallCcOpcodes \cup RetCcOpcodes
    \cup RstOpcodes \cup InvalidOpcodes

\* The arms of the 0xcb match that the model executes: RES b,A and SET b,A
ModelledCbcodes == {\h87 + 8 * b : b \in 0..7} \cup {\hc7 + 8 * b : b \in 0..7}

\* Cpu::ex, the arm 0xcb: s is the state after the fetch of the prefix
ExCb(s) ==
    LET cbcode == ImmByte(s)
        s1     == ImmNext(s)
        b      == (cbcode \div 8) % 8
    IN  IF cbcode = Fault THEN s1
        ELSE IF cbcode \in \h80..\hbf
        THEN [s1 EXCEPT !.cpu.reg.a = ClearBit(@, b)]
        ELSE [s1 EXCEPT !.cpu.reg.a = SetBit(@, b)]

\* Cpu::ex, the match on the opcode: s is the state after the fetch of the
\* opcode.  A panic is recorded in the bus's fault field.
ExArm(s, opcode) ==
    CASE opcode = \h00 -> s
      [] opcode = \h3e ->
            IF ImmByte(s) = Fault THEN ImmNext(s)
            ELSE [ImmNext(s) EXCEPT !.cpu.reg.a = ImmByte(s)]
      [] opcode = \h06 ->
            IF ImmByte(s) = Fault THEN ImmNext(s)
            ELSE [ImmNext(s) EXCEPT !.cpu.reg.b = ImmByte(s)]
      [] opcode = \h08 ->
            IF ImmWord(s) = Fault THEN ImmWordNext(s)
            ELSE [ImmWordNext(s) EXCEPT !.mmu = MmuSetWord(@, ImmWord(s), s.cpu.reg.sp)]
      [] opcode = \he0 ->
            IF ImmByte(s) = Fault THEN ImmNext(s)
            ELSE [ImmNext(s) EXCEPT
                     !.mmu = MmuSet(@, BitOr(\hff00, ImmByte(s)), s.cpu.reg.a)]
      [] opcode = \h76 -> [s EXCEPT !.cpu.halted = TRUE]
      [] opcode = \h10 -> s
      [] opcode = \hf3 -> [s EXCEPT !.cpu.enable_interrupts = FALSE]
      [] opcode = \hfb -> [s EXCEPT !.cpu.enable_interrupts = TRUE]
      [] opcode = \h37 ->
            [s EXCEPT !.cpu.reg =
                SetFlag(SetFlag(SetFlag(@, "C", TRUE), "H", FALSE), "N", FALSE)]
      [] opcode = \h3f ->
            [s EXCEPT !.cpu.reg =
                SetFlag(SetFlag(SetFlag(@, "C", ~GetFlag(@, "C")), "H", FALSE),
                        "N", FALSE)]
      [] opcode = \hc3 ->
            IF ImmWord(s) = Fault THEN ImmWordNext(s)
            ELSE [s EXCEPT !.cpu.reg.pc = ImmWord(s)]
      [] opcode = \he9 -> [s EXCEPT !.cpu.reg.pc = GetHl(s.cpu.reg)]
      [] opcode \in JpCcOpcodes ->
            IF ImmWord(s) # Fault /\ BranchCond(opcode, s.cpu.reg)
            THEN [s EXCEPT !.cpu.reg.pc = ImmWord(s)]
            ELSE ImmWordNext(s)
      [] opcode = \h18 ->
            IF ImmByte(s) = Fault THEN ImmNext(s)
            ELSE [s EXCEPT !.cpu.reg.pc = AluJr(U16(@ + 1), ImmByte(s))]
      [] opcode \in JrCcOpcodes ->
            IF ImmByte(s) # Fault /\ BranchCond(opcode, s.cpu.reg)
            THEN [s EXCEPT !.cpu.reg.pc = AluJr(U16(@ + 1), ImmByte(s))]
            ELSE ImmNext(s)
      [] opcode = \hcd ->
            IF ImmWord(s) = Fault THEN ImmWordNext(s)
            ELSE [StackAdd(ImmWordNext(s), U16(s.cpu.reg.pc + 2))
                     EXCEPT !.cpu.reg.pc = ImmWord(s)]
      [] opcode \in CallCcOpcodes ->
            IF ImmWord(s) # Fault /\ BranchCond(opcode, s.cpu.reg)
            THEN [StackAdd(ImmWordNext(s), U16(s.cpu.reg.pc + 2))
                     EXCEPT !.cpu.reg.pc = ImmWord(s)]
            ELSE ImmWordNext(s)
      [] opcode \in RstOpcodes ->
            [StackAdd(s, s.cpu.reg.pc) EXCEPT !.cpu.reg.pc = opcode - \hc7]
      [] opcode = \hc9 -> StackPopPc(s)
      [] opcode \in RetCcOpcodes ->
            IF BranchCond(opcode, s.cpu.reg) THEN StackPopPc(s) ELSE s
      [] opcode = \hd9 ->
            LET s1 == StackPopPc(s)
            IN  IF Faulted(s1.mmu) THEN s1
                ELSE [s1 EXCEPT !.cpu.enable_interrupts = TRUE]
      [] opcode = \hcb -> ExCb(s)
      [] opcode \in InvalidOpcodes ->
            [s EXCEPT !.mmu.fault = TRUE,
                      !.cpu.not_implemented = NotImplementedMessage(opcode)]

\* Cpu::ex, "let ecycle = match opcode": the extra machine cycles, read
\* from the flags after the instruction has run
Ecycle(opcode, reg) ==
    CASE opcode \in {\h20, \h30} -> IF GetFlag(reg, "Z") THEN 0 ELSE 1
      [] opcode \in {\h28, \h38} -> IF GetFlag(reg, "Z") THEN 1 ELSE 0
      [] opcode \in {\hc0, \hd0} -> IF GetFlag(reg, "Z") THEN 0 ELSE 3
      [] opcode \in {\hc8, \hcc, \hd8, \hdc} -> IF GetFlag(reg, "Z") THEN 3 ELSE 0
      [] opcode \in {\hc2, \hd2} -> IF GetFlag(reg, "Z") THEN 0 ELSE 1
      [] opcode \in {\hca, \hda} -> IF GetFlag(reg, "Z") THEN 1 ELSE 0
      [] opcode \in {\hc4, \hd4} -> IF GetFlag(reg, "Z") THEN 0 ELSE 3
      [] OTHER -> 0

\* Cpu::ex, the returned machine cycles
ExCycles(opcode, cbcode, ecycle) ==
    IF opcode = \hcb THEN CB_CYCLES[cbcode + 1] ELSE OP_CYCLES[opcode + 1] + ecycle

\* Cpu::ex, the return: s1 is the state after the arm has run
ExReturn(s1, opcode, cbcode) ==
    IF Faulted(s1.mmu) THEN [st |-> s1, c |-> 0]
    ELSE [st |-> s1,
          c  |-> ExCycles(opcode, cbcode, Ecycle(opcode, s1.cpu.reg))]

\* Cpu::ex, after "let opcode = self.imm()": s1 is the state after the
\* fetch, cbcode the byte that follows a 0xcb prefix
ExFetched(s1, opcode, cbcode) ==
    ExReturn(IF opcode = Fault THEN s1 ELSE ExArm(s1, opcode), opcode, cbcode)

\* Cpu::ex: the new state and the returned machine cycles (0 after a panic)
Ex(s) ==
    ExFetched(ImmNext(s), ImmByte(s),
              IF ImmByte(s) = \hcb THEN ImmByte(ImmNext(s)) ELSE 0)

\* Whether the instruction at PC is one the model executes
Executable(s) ==
    /\ ImmByte(s) \in ModelledOpcodes
    /\ ImmByte(s) = \hcb => ImmByte(ImmNext(s)) \in ModelledCbcodes

\* Cpu::next, "self.ex() * 4": x is the result of Cpu::ex
ExClocks(x) == [st |-> x.st, c |-> x.c * 4]

\* Cpu::next, after handle_interrupts: h is its result
CpuNextHandled(h) ==
    IF h.c # 0 THEN h
    ELSE IF h.st.cpu.halted THEN [st |-> h.st, c |-> 1]
    ELSE ExClocks(Ex(h.st))

\* Cpu::next: the new state and the returned count
CpuNext(s) == CpuNextHandled(HandleInterrupts(s))

\* Cpu::next, whether the result h of handle_interrupts leads to Cpu::ex
ReachesEx(h) == h.c = 0 /\ ~h.st.cpu.halted

\* Whether Cpu::next reaches Cpu::ex from s
Fetches(s) == ReachesEx(HandleInterrupts(s))

\* MotherBoard::do_cycle, after Cpu::next: n is its result, d the result
\* of MemoryManagementUnit::do_cycle
DoCycleReturn(n, d) ==
    IF Faulted(n.st.mmu) THEN [st |-> n.st, cycles |-> 0, gputicks |-> 0]
    ELSE [st |-> [n.st EXCEPT !.mmu = d.mmu],
          cycles |-> n.c * 4, gputicks |-> d.gputicks]

\* MotherBoard::do_cycle, "self.mmu.do_cycle(cycles as u32)": n is the
\* result of Cpu::next
DoCycleBus(n) == DoCycleReturn(n, MmuDoCycle(n.st.mmu, n.c * 4))

\* MotherBoard::do_cycle: the new state, the returned count and the clocks
\* the bus handed to the PPU
MotherBoardDoCycle(s) ==
    DoCycleBus(CpuNext(IF MmuGet(s.mmu, s.cpu.reg.pc) = \h10
                       THEN [s EXCEPT !.mmu = SwitchSpeed(@)] ELSE s))

---------------------------------------------------------------------------
(* APU (apu.rs): the registers of the four channels and of the mixer, the  *)
(* units a register write drives (length counter, volume envelope,         *)
(* frequency sweep, LFSR), the frame sequencer, the waveform generators,   *)
(* the mixer and the sample queue.  Of the resampler (blip_buf) the model  *)
(* keeps the amplitude each channel set last and the number of samples a   *)
(* frame makes available.  A unit holds an Rc to its channel's Register;   *)
(* the model keeps the register in the channel record, next to the units.  *)

\* cpu::CLOCK_FREQUENCY
CLOCK_FREQUENCY == 4194304

\* apu.rs, Register::power_up
ApuRegisterPowerUp(channel) ==
    [channel |-> channel, nrx0 |-> \h00,
     nrx1 |-> IF channel \in {"Square1", "Square2"} THEN \h40 ELSE \h00,
     nrx2 |-> \h00, nrx3 |-> \h00, nrx4 |-> \h00]

\* Register::get_sweep_period
GetSweepPeriod(r) == BitAnd(r.nrx0 \div 16, \h07)

\* Register::get_negate
GetNegate(r) == BitAnd(r.nrx0, \h08) # 0

\* Register::get_shift
GetShift(r) == BitAnd(r.nrx0, \h07)

\* Register::get_dac_power
GetDacPower(r) == BitAnd(r.nrx0, \h80) # 0

\* Register::get_length_load
GetLengthLoad(r) ==
    IF r.channel = "Wave" THEN 256 - r.nrx1 ELSE 64 - BitAnd(r.nrx1, \h3f)

\* Register::get_starting_volume
GetStartingVolume(r) == r.nrx2 \div 16

\* Register::get_period
GetPeriod(r) == BitAnd(r.nrx2, \h07)

\* Register::get_frequency
GetFrequency(r) == BitAnd(r.nrx4, \h07) * 256 + r.nrx3

\* Register::get_width_mode_of_lfsr
GetWidthModeOfLfsr(r) == BitAnd(r.nrx3, \h08) # 0

\* Register::get_trigger
GetTrigger(r) == BitAnd(r.nrx4, \h80) # 0

\* Register::set_trigger
SetTrigger(r, b) ==
    [r EXCEPT !.nrx4 = IF b THEN BitOr(@, \h80) ELSE BitAnd(@, \h7f)]

\* Register::get_power
GetPower(r) == BitAnd(r.nrx2, \h80) # 0

\* fn period
Period(r) ==
    CASE r.channel \in {"Square1", "Square2"} -> 4 * (2048 - GetFrequency(r))
      [] r.channel = "Wave" -> 2 * (2048 - GetFrequency(r))
      [] r.channel = "Noise" ->
            (IF BitAnd(r.nrx3, \h07) = 0 THEN 8 ELSE (BitAnd(r.nrx3, \h07) + 1) * 16)
            * 2 ^ (r.nrx3 \div 16)
      [] r.channel = "Mixer" -> CLOCK_FREQUENCY \div 512

\* ChannelSquare::power_up, ChannelWave::power_up, ChannelNoise::power_up.
\* fs is the frequency sweep (used for Square1 only), lfsr the shift
\* register of the noise channel, waveram and waveidx the wave channel's.
ChannelPowerUp(channel) ==
    [reg |-> ApuRegisterPowerUp(channel),
     timer |-> ClockPowerUp(IF channel = "Noise" THEN 4096 ELSE 8192),
     lc |-> \h0000,
     ve |-> [timer |-> ClockPowerUp(8), volume |-> \h00],
     fs |-> [timer |-> ClockPowerUp(8), enable |-> FALSE, shadow |-> \h0000,
             newfeq |-> \h0000],
     lfsr |-> \h0001,
     waveram |-> EmptyMem,
     waveidx |-> 0,
     idx |-> IF channel \in {"Square1", "Square2"} THEN 1 ELSE 0,
     ampl |-> 0]

\* LengthCounter::reload
LengthCounterReload(ch) ==
    IF ch.lc = 0
    THEN [ch EXCEPT !.lc = IF ch.reg.channel = "Wave" THEN 256 ELSE 64]
    ELSE ch

\* VolumeEnvelope::reload
VolumeEnvelopeReload(ch) ==
    [ch EXCEPT !.ve.timer.period =
                   IF GetPeriod(ch.reg) = 0 THEN 8 ELSE GetPeriod(ch.reg),
               !.ve.volume = GetStartingVolume(ch.reg)]

\* FrequencySweep::frequency_calculation (wrapping_sub, wrapping_add on u16)
FrequencyCalculation(ch) ==
    [ch EXCEPT !.fs.newfeq =
        IF GetNegate(ch.reg)
        THEN U16(ch.fs.shadow - ch.fs.shadow \div 2 ^ GetShift(ch.reg) + 65536)
        ELSE U16(ch.fs.shadow + ch.fs.shadow \div 2 ^ GetShift(ch.reg))]

\* FrequencySweep::overflow_check
OverflowCheck(ch) ==
    IF ch.fs.newfeq >= 2048 THEN [ch EXCEPT !.reg = SetTrigger(@, FALSE)] ELSE ch

\* FrequencySweep::reload without the calculation and the check
FrequencySweepLoad(ch) ==
    [ch EXCEPT !.fs.shadow = GetFrequency(ch.reg),
               !.fs.timer.period =
                   IF GetSweepPeriod(ch.reg) = 0 THEN 8 ELSE GetSweepPeriod(ch.reg),
               !.fs.enable = (GetSweepPeriod(ch.reg) # 0 \/ GetShift(ch.reg) # 0)]

\* FrequencySweep::reload
FrequencySweepReload(ch) ==
    IF GetShift(ch.reg) # 0
    THEN OverflowCheck(FrequencyCalculation(FrequencySweepLoad(ch)))
    ELSE FrequencySweepLoad(ch)

\* ChannelSquare::set, the trigger event of NRx4
SquareTrigger(ch) ==
    IF ~GetTrigger(ch.reg) THEN ch
    ELSE IF ch.reg.channel = "Square1"
    THEN FrequencySweepReload(VolumeEnvelopeReload(LengthCounterReload(ch)))
    ELSE VolumeEnvelopeReload(LengthCounterReload(ch))

\* Register k of a channel set to v
SetNrx(ch, k, v) ==
    CASE k = 0 -> [ch EXCEPT !.reg.nrx0 = v]
      [] k = 1 -> [ch EXCEPT !.reg.nrx1 = v]
      [] k = 2 -> [ch EXCEPT !.reg.nrx2 = v]
      [] k = 3 -> [ch EXCEPT !.reg.nrx3 = v]
      [] k = 4 -> [ch EXCEPT !.reg.nrx4 = v]

\* Register k of a channel
GetNrx(ch, k) ==
    CASE k = 0 -> ch.reg.nrx0
      [] k = 1 -> ch.reg.nrx1
      [] k = 2 -> ch.reg.nrx2
      [] k = 3 -> ch.reg.nrx3
      [] k = 4 -> ch.reg.nrx4

\* The timer period recomputed from the registers
WithPeriod(ch) == [ch EXCEPT !.timer.period = Period(ch.reg)]

\* The length counter reloaded from NRx1
WithLengthLoad(ch) == [ch EXCEPT !.lc = GetLengthLoad(ch.reg)]

\* impl Memory for ChannelSquare: set; k is the register, a - 0xff10 or
\* a - 0xff15
ChannelSquareSet(ch, k, v) ==
    CASE k \in {0, 2} -> SetNrx(ch, k, v)
      [] k = 1 -> WithLengthLoad(SetNrx(ch, k, v))
      [] k = 3 -> WithPeriod(SetNrx(ch, k, v))
      [] k = 4 -> SquareTrigger(WithPeriod(SetNrx(ch, k, v)))

\* impl Memory for ChannelWave: set; k is a - 0xff1a
ChannelWaveSet(ch, k, v) ==
    CASE k \in {0, 2} -> SetNrx(ch, k, v)
      [] k = 1 -> WithLengthLoad(SetNrx(ch, k, v))
      [] k = 3 -> WithPeriod(SetNrx(ch, k, v))
      [] k = 4 ->
            IF BitAnd(v, \h80) # 0
            THEN [LengthCounterReload(WithPeriod(SetNrx(ch, k, v)))
                     EXCEPT !.waveidx = 0]
            ELSE WithPeriod(SetNrx(ch, k, v))

\* impl Memory for ChannelNoise: set; k is a - 0xff1f
ChannelNoiseSet(ch, k, v) ==
    CASE k \in {0, 2} -> SetNrx(ch, k, v)
      [] k = 1 -> WithLengthLoad(SetNrx(ch, k, v))
      [] k = 3 -> WithPeriod(SetNrx(ch, k, v))
      [] k = 4 ->
            IF BitAnd(v, \h80) # 0
            THEN [VolumeEnvelopeReload(LengthCounterReload(SetNrx(ch, k, v)))
                     EXCEPT !.lfsr = \h0001]
            ELSE SetNrx(ch, k, v)

\* Lfsr::next with both widths shifting out of bit 14
LfsrTapWide(width) == 14

\* Lfsr::next, the bit it returns: bit 6 of the register in width mode,
\* bit 14 otherwise
LfsrTap(width) == IF width THEN 6 ELSE 14

\* Lfsr::next: the register after the clock ("self.n <<= 1" on u16, then
\* the XOR of bits s and s - 1 of the old value into bit 0) and the bit
\* returned
LfsrNext(n, width) ==
    [n   |-> BitOr(U16(n * 2),
                   (Bit(n, LfsrTap(width)) + Bit(U16(n * 2), LfsrTap(width))) % 2),
     out |-> Bit(n, LfsrTap(width))]

\* Apu::power_up
ApuPowerUp(sample_rate) ==
    [buffer |-> << >>,
     reg |-> ApuRegisterPowerUp("Mixer"),
     timer |-> ClockPowerUp(CLOCK_FREQUENCY \div 512),
     fs |-> 0,
     channel1 |-> ChannelPowerUp("Square1"),
     channel2 |-> ChannelPowerUp("Square2"),
     channel3 |-> ChannelPowerUp("Wave"),
     channel4 |-> ChannelPowerUp("Noise"),
     avail |-> 0,
     offset |-> 0,
     sample_rate |-> sample_rate]

\* const RD_MASK
RD_MASK ==
    << \h80, \h3f, \h00, \hff, \hbf, \hff, \h3f, \h00, \hff, \hbf, \h7f, \hff,
       \h9f, \hff, \hbf, \hff, \hff, \h00, \h00, \hbf, \h00, \h00, \h70, \hff,
       \hff, \hff, \hff, \hff, \hff, \hff, \hff, \hff, \h00, \h00, \h00, \h00,
       \h00, \h00, \h00, \h00, \h00, \h00, \h00, \h00, \h00, \h00, \h00, \h00 >>

\* impl Memory for Apu: get of 0xff26 before the mask
Nr52(p) ==
    BitAnd(p.reg.nrx2, \hf0)
    + (IF GetTrigger(p.channel1.reg) THEN 1 ELSE 0)
    + (IF GetTrigger(p.channel2.reg) THEN 2 ELSE 0)
    + (IF GetTrigger(p.channel3.reg) /\ GetDacPower(p.channel3.reg) THEN 4 ELSE 0)
    + (IF GetTrigger(p.channel4.reg) THEN 8 ELSE 0)

\* impl Memory for Apu: get, a in 0xff10..0xff3f
ApuGet(p, a) ==
    BitOr(CASE a \in \hff10..\hff14 -> GetNrx(p.channel1, a - \hff10)
            [] a \in \hff15..\hff19 -> GetNrx(p.channel2, a - \hff15)
            [] a \in \hff1a..\hff1e -> GetNrx(p.channel3, a - \hff1a)
            [] a \in \hff1f..\hff23 -> GetNrx(p.channel4, a - \hff1f)
            [] a = \hff24 -> p.reg.nrx0
            [] a = \hff25 -> p.reg.nrx1
            [] a = \hff26 -> Nr52(p)
            [] a \in \hff27..\hff2f -> \h00
            [] a \in \hff30..\hff3f -> MemGet(p.channel3.waveram, a - \hff30),
          RD_MASK[a - \hff10 + 1])

\* impl Memory for Apu: set of 0xff26 with the power bit clear: the
\* registers of a channel written 0
RegisterOff(ch) ==
    [ch EXCEPT !.reg = [@ EXCEPT !.nrx0 = 0, !.nrx1 = 0, !.nrx2 = 0, !.nrx3 = 0,
                                 !.nrx4 = 0]]

\* impl Memory for Apu: set of 0xff26
ApuSetNr52(p, v) ==
    IF BitAnd(v, \h80) # 0 THEN [p EXCEPT !.reg.nrx2 = v]
    ELSE [p EXCEPT !.channel1 = RegisterOff(@), !.channel2 = RegisterOff(@),
                   !.channel3 = RegisterOff(@), !.channel4 = RegisterOff(@),
                   !.reg = ApuRegisterPowerUp("Mixer")]

\* impl Memory for Apu: set, a in 0xff10..0xff3f
ApuSet(p, a, v) ==
    IF a # \hff26 /\ ~GetPower(p.reg) THEN p
    ELSE CASE a \in \hff10..\hff14 ->
                 [p EXCEPT !.channel1 = ChannelSquareSet(@, a - \hff10, v)]
           [] a \in \hff15..\hff19 ->
                 [p EXCEPT !.channel2 = ChannelSquareSet(@, a - \hff15, v)]
           [] a \in \hff1a..\hff1e ->
                 [p EXCEPT !.channel3 = ChannelWaveSet(@, a - \hff1a, v)]
           [] a \in \hff1f..\hff23 ->
                 [p EXCEPT !.channel4 = ChannelNoiseSet(@, a - \hff1f, v)]
           [] a = \hff24 -> [p EXCEPT !.reg.nrx0 = v]
           [] a = \hff25 -> [p EXCEPT !.reg.nrx1 = v]
           [] a = \hff26 -> ApuSetNr52(p, v)
           [] a \in \hff27..\hff2f -> p
           [] a \in \hff30..\hff3f ->
                 [p EXCEPT !.channel3.waveram = MemSet(@, a - \hff30, v)]

\* Apu::play, the test that ends the loop
PlayFull(buffer, sample_rate) == Len(buffer) > sample_rate

\* Register::get_length_enable
GetLengthEnable(r) == BitAnd(r.nrx4, \h40) # 0

\* Register::get_envelope_add_mode
GetEnvelopeAddMode(r) == BitAnd(r.nrx2, \h08) # 0

\* Register::get_volume_code
GetVolumeCode(r) == BitAnd(r.nrx2 \div 32, \h03)

\* Register::get_duty
GetDuty(r) == r.nrx1 \div 64

\* Register::set_frequency
SetFrequency(r, f) ==
    [r EXCEPT !.nrx4 = BitAnd(@, \hf8) + BitAnd(f \div 256, \h07), !.nrx3 = U8(f)]

\* Register::get_l_vol
GetLVol(r) == BitAnd(r.nrx0 \div 16, \h07)

\* Register::get_r_vol
GetRVol(r) == BitAnd(r.nrx0, \h07)

\* LengthCounter::next
LengthCounterNext(ch) ==
    IF GetLengthEnable(ch.reg) /\ ch.lc # 0
    THEN IF ch.lc = 1
         THEN [ch EXCEPT !.lc = 0, !.reg = SetTrigger(@, FALSE)]
         ELSE [ch EXCEPT !.lc = @ - 1]
    ELSE ch

\* VolumeEnvelope::next, the volume after a clock of the envelope timer
EnvelopeStep(ch) ==
    IF GetEnvelopeAddMode(ch.reg) THEN U8(ch.ve.volume + 1) ELSE U8(ch.ve.volume + 255)

\* VolumeEnvelope::next
VolumeEnvelopeNext(ch) ==
    IF GetPeriod(ch.reg) = 0 THEN ch
    ELSE IF ClockNext(ch.ve.timer, 1).rs = 0
    THEN [ch EXCEPT !.ve.timer = ClockNext(@, 1).clock]
    ELSE [ch EXCEPT !.ve.timer = ClockNext(@, 1).clock,
                    !.ve.volume = IF EnvelopeStep(ch) <= 15 THEN EnvelopeStep(ch) ELSE @]

\* FrequencySweep::next, the write-back of the new frequency and the
\* second calculation
SweepWriteBack(ch) ==
    IF ch.fs.newfeq < 2048 /\ GetShift(ch.reg) # 0
    THEN OverflowCheck(FrequencyCalculation(
             [ch EXCEPT !.reg = SetFrequency(@, ch.fs.newfeq),
                        !.fs.shadow = ch.fs.newfeq]))
    ELSE ch

\* FrequencySweep::next
FrequencySweepNext(ch) ==
    IF ~ch.fs.enable \/ GetSweepPeriod(ch.reg) = 0 THEN ch
    ELSE IF ClockNext(ch.fs.timer, 1).rs = 0
    THEN [ch EXCEPT !.fs.timer = ClockNext(@, 1).clock]
    ELSE SweepWriteBack(OverflowCheck(FrequencyCalculation(
             [ch EXCEPT !.fs.timer = ClockNext(@, 1).clock])))

\* ChannelSquare::next, the duty patterns
DutyPattern(d) ==
    CASE d = 0 -> \h01
      [] d = 1 -> \h81
      [] d = 2 -> \h87
      [] d = 3 -> \h7e

\* ChannelSquare::next, the amplitude set at duty position idx
SquareAmpl(ch, idx) ==
    IF ~GetTrigger(ch.reg) \/ ch.ve.volume = 0 THEN 0
    ELSE IF Bit(DutyPattern(GetDuty(ch.reg)), idx) # 0 THEN ch.ve.volume
    ELSE 0 - ch.ve.volume

\* ChannelSquare::next.  The loop runs rs times with the registers and the
\* volume fixed, so the amplitude left in the blip is the one of the last
\* round; the time stamps of the deltas (blip.from) are not modelled.
ChannelSquareNext(ch, cycles) ==
    IF ClockNext(ch.timer, cycles).rs = 0
    THEN [ch EXCEPT !.timer = ClockNext(@, cycles).clock]
    ELSE [ch EXCEPT !.timer = ClockNext(@, cycles).clock,
                    !.idx = (@ + ClockNext(ch.timer, cycles).rs) % 8,
                    !.ampl = SquareAmpl(ch, (ch.idx + ClockNext(ch.timer, cycles).rs - 1) % 8)]

\* ChannelWave::next, the shift of a volume code
WaveShift(code) ==
    CASE code = 0 -> 4
      [] code = 1 -> 0
      [] code = 2 -> 1
      [] code = 3 -> 2

\* ChannelWave::next, the sample taken at position idx
WaveSample(ch, idx) ==
    IF idx % 2 = 0
    THEN BitAnd(MemGet(ch.waveram, idx \div 2), \h0f)
    ELSE MemGet(ch.waveram, idx \div 2) \div 16

\* ChannelWave::next, the amplitude set at position idx
WaveAmpl(ch, idx) ==
    IF ~GetTrigger(ch.reg) \/ ~GetDacPower(ch.reg) THEN 0
    ELSE WaveSample(ch, idx) \div 2 ^ WaveShift(GetVolumeCode(ch.reg))

\* ChannelWave::next
ChannelWaveNext(ch, cycles) ==
    IF ClockNext(ch.timer, cycles).rs = 0
    THEN [ch EXCEPT !.timer = ClockNext(@, cycles).clock]
    ELSE [ch EXCEPT !.timer = ClockNext(@, cycles).clock,
                    !.waveidx = (@ + ClockNext(ch.timer, cycles).rs) % 32,
                    !.ampl = WaveAmpl(ch, (ch.waveidx + ClockNext(ch.timer, cycles).rs - 1) % 32)]

RECURSIVE LfsrRun(_, _, _)
\* ChannelNoise::next, k clocks of the shift register: the register and the
\* bit returned by the last clock
LfsrRun(n, width, k) ==
    IF k = 1 THEN LfsrNext(n, width)
    ELSE LfsrRun(LfsrNext(n, width).n, width, k - 1)

\* ChannelNoise::next, the channel after rs >= 1 rounds: the register is
\* clocked only while the channel is triggered and its volume is not zero
NoiseRounds(ch, rs) ==
    IF ~GetTrigger(ch.reg) \/ ch.ve.volume = 0 THEN [ch EXCEPT !.ampl = 0]
    ELSE [ch EXCEPT !.lfsr = LfsrRun(ch.lfsr, GetWidthModeOfLfsr(ch.reg), rs).n,
                    !.ampl = IF LfsrRun(ch.lfsr, GetWidthModeOfLfsr(ch.reg), rs).out # 0
                             THEN ch.ve.volume ELSE 0 - ch.ve.volume]

\* ChannelNoise::next
ChannelNoiseNext(ch, cycles) ==
    IF ClockNext(ch.timer, cycles).rs = 0
    THEN [ch EXCEPT !.timer = ClockNext(@, cycles).clock]
    ELSE NoiseRounds([ch EXCEPT !.timer = ClockNext(@, cycles).clock],
                     ClockNext(ch.timer, cycles).rs)

RECURSIVE Play(_, _, _, _)
\* Apu::play of count equal pairs
Play(buffer, pair, count, sample_rate) ==
    IF count = 0 \/ PlayFull(buffer, sample_rate) THEN buffer
    ELSE Play(Append(buffer, pair), pair, count - 1, sample_rate)

\* Apu::mix, what one channel adds to the two sides for the sample v: the
\* sums are kept as integers, the common factor (1/7) * (1/15) * 0.25 of
\* l_vol and r_vol left out
MixChannel(reg, i, v) ==
    << IF Bit(reg.nrx1, i - 1) = 1 THEN v * GetLVol(reg) ELSE 0,
       IF Bit(reg.nrx1, i + 3) = 1 THEN v * GetRVol(reg) ELSE 0 >>

\* Apu::mix, the pair (buf_l[i], buf_r[i]) for the samples v[1..4] of the
\* four channels
MixPair(reg, v) ==
    << MixChannel(reg, 1, v[1])[1] + MixChannel(reg, 2, v[2])[1]
           + MixChannel(reg, 3, v[3])[1] + MixChannel(reg, 4, v[4])[1],
       MixChannel(reg, 1, v[1])[2] + MixChannel(reg, 2, v[2])[2]
           + MixChannel(reg, 3, v[3])[2] + MixChannel(reg, 4, v[4])[2] >>

\* Apu::next, the four end_frame calls: the samples that become available
\* for period clocks at the rates of create_blipbuf
EndFrame(p) ==
    [p EXCEPT !.avail = @ + (p.offset + p.timer.period * p.sample_rate) \div CLOCK_FREQUENCY,
              !.offset = (@ + p.timer.period * p.sample_rate) % CLOCK_FREQUENCY]

\* Apu::mix.  The samples read from a blip are taken to be the amplitude
\* the channel set last (the band-limited transitions of the blip library
\* are not modelled).
Mix(p) ==
    [p EXCEPT !.buffer = Play(@, MixPair(p.reg, <<p.channel1.ampl, p.channel2.ampl,
                                                   p.channel3.ampl, p.channel4.ampl>>),
                              p.avail, p.sample_rate),
              !.avail = 0]

\* Apu::next, the units of a channel clocked at a step of the frame
\* sequencer
\* The length counter clocked at the odd steps instead
LengthClockedOdd(ch, step) == IF step \in {1, 3, 5, 7} THEN LengthCounterNext(ch) ELSE ch

LengthClocked(ch, step) == IF step \in {0, 2, 4, 6} THEN LengthCounterNext(ch) ELSE ch

EnvelopeClocked(ch, step) == IF step = 7 THEN VolumeEnvelopeNext(ch) ELSE ch

SweepClocked(ch, step) ==
    IF step \in {2, 6} THEN WithPeriod(FrequencySweepNext(ch)) ELSE ch

\* FrameSequencer::next
FrameSequencerNext(step) == (step + 1) % 8

\* Apu::next, one round of the loop
ApuTick(p) ==
    Mix(EndFrame(
        [p EXCEPT !.fs = FrameSequencerNext(p.fs),
                  !.channel1 = SweepClocked(EnvelopeClocked(LengthClocked(
                                   ChannelSquareNext(@, p.timer.period),
                                   FrameSequencerNext(p.fs)), FrameSequencerNext(p.fs)),
                                   FrameSequencerNext(p.fs)),
                  !.channel2 = EnvelopeClocked(LengthClocked(
                                   ChannelSquareNext(@, p.timer.period),
                                   FrameSequencerNext(p.fs)), FrameSequencerNext(p.fs)),
                  !.channel3 = LengthClocked(ChannelWaveNext(@, p.timer.period),
                                             FrameSequencerNext(p.fs)),
                  !.channel4 = EnvelopeClocked(LengthClocked(
                                   ChannelNoiseNext(@, p.timer.period),
                                   FrameSequencerNext(p.fs)), FrameSequencerNext(p.fs))]))

RECURSIVE ApuTicks(_, _)
\* Apu::next, the loop
ApuTicks(p, k) == IF k = 0 THEN p ELSE ApuTicks(ApuTick(p), k - 1)

\* Apu::next without the test of the power bit
ApuNextPowered(p, cycles) ==
    ApuTicks([p EXCEPT !.timer = ClockNext(@, cycles).clock],
             ClockNext(p.timer, cycles).rs)

\* Apu::next
ApuNext(p, cycles) ==
    IF ~GetPower(p.reg) THEN p
    ELSE ApuTicks([p EXCEPT !.timer = ClockNext(@, cycles).clock],
                  ClockNext(p.timer, cycles).rs)

---------------------------------------------------------------------------
(* The audio thread (main.rs, cpal_thread)                                 *)

\* cpal_thread: outlen, for a device buffer of n samples
OutLen(n, buffer) ==
    IF n \div 2 < Len(buffer) THEN n \div 2 ELSE Len(buffer)

RECURSIVE OutputSwapped(_)
\* cpal_thread with the two stores of a pair exchanged
OutputSwapped(pairs) ==
    IF pairs = << >> THEN << >>
    ELSE <<Head(pairs)[2], Head(pairs)[1]>> \o OutputSwapped(Tail(pairs))

RECURSIVE Output(_)
\* cpal_thread, the arm F32: the samples stored in the device buffer for
\* the drained pairs, "outbuffer[i * 2] = in_l; outbuffer[i * 2 + 1] = in_r"
Output(pairs) ==
    IF pairs = << >> THEN << >>
    ELSE <<Head(pairs)[1], Head(pairs)[2]>> \o Output(Tail(pairs))

\* The sample rate of the host's audio device, in pairs per second (the
\* devices run at 44100 and more; the model keeps the second short)
SampleRate == 2

\* The threads before the emulator's first Apu::play and the audio
\* device's first callback: lock is the holder of the queue's mutex; batch
\* and i are the slices Apu::play was called with and its place in them;
\* n is the length of the device buffer of the running callback.
\* produced and accepted record the pairs handed to Apu::play and those it
\* pushed; delivered records the samples stored in device buffers.
HostPowerUp ==
    [lock |-> "free", emu |-> "idle", audio |-> "idle", batch |-> << >>, i |-> 1,
     n |-> 0, produced |-> << >>, accepted |-> << >>, delivered |-> << >>]

---------------------------------------------------------------------------
(* The observation variables.  last is the operation that produced the     *)
(* current state with its inputs and result; pre is what the state before  *)
(* it held (the part the properties compare against); fed counts clocks    *)
(* or operations where a specification bounds them.                        *)

PowerUp == [op |-> "power_up", a |-> 0, v |-> 0, r |-> 0]

---------------------------------------------------------------------------
(* SpecMbc1: an MBC1 cartridge (2 MiB ROM, 32 KiB RAM) behind the bus,     *)
(* driven by arbitrary bus writes and reads of the cartridge's ranges.     *)

\* 128 banks of 16 KiB
Mbc1RomLen == 2097152

\* 4 banks of 8 KiB
Mbc1RamLen == 32768

\* One address in each control range, and values covering: low five bits
\* zero (0x00, 0x20), each value of the two upper bits (0x00, 0x01, 0x0a,
\* 0x43), RAM enable (0x0a), both modes (0x00, 0x01), no mode (the others)
Mbc1CtrlWrites == {\h0000, \h2000, \h4000, \h6000} \X {\h00, \h01, \h0a, \h20, \h43}

Mbc1RamWrites == {\ha000} \X {\h00, \h5a}

Mbc1Reads == {\h0000, \h4000, \h7fff, \ha000}

Mbc1Init ==
    /\ mmu = MmuPowerUp(CartPowerUp("Mbc1", Mbc1RomLen, Mbc1RamLen))
    /\ cpu = CpuPowerUp
    /\ last = PowerUp
    /\ pre = CartPowerUp("Mbc1", Mbc1RomLen, Mbc1RamLen)
    /\ apu = ApuPowerUp(SampleRate)
    /\ host = HostPowerUp
    /\ fed = 0

\* A bus write that the cartridge receives
Mbc1Write ==
    \E w \in Mbc1CtrlWrites \cup Mbc1RamWrites :
        /\ ~Faulted(mmu)
        /\ mmu' = MmuSet(mmu, w[1], w[2])
        /\ last' = [op |-> "set", a |-> w[1], v |-> w[2], r |-> 0]
        /\ pre' = mmu.cartridge
        /\ UNCHANGED <<apu, host>>
        /\ UNCHANGED <<cpu, fed>>

\* A bus read that the cartridge answers
Mbc1Read ==
    \E a \in Mbc1Reads :
        /\ ~Faulted(mmu)
        /\ MmuGet(mmu, a) # Fault
        /\ last' = [op |-> "get", a |-> a, v |-> 0, r |-> MmuGet(mmu, a)]
        /\ pre' = mmu.cartridge
        /\ UNCHANGED <<apu, host>>
        /\ UNCHANGED <<mmu, cpu, fed>>

Mbc1Next == Mbc1Write \/ Mbc1Read

SpecMbc1 == Mbc1Init /\ [][Mbc1Next]_vars

\* The byte the ROM image holds in bank b at offset o of the bank
BankByte(b, o) == (3 * b + o) % 256

\* C9: after any sequence of writes to an MBC1 cartridge the ROM bank
\* mapped at 0x4000-0x7FFF has non-zero low five bits: a write to
\* 0x2000-0x3FFF of a value whose low five bits are 0 selects low bits 1, a
\* write to 0x4000-0x7FFF leaves the low five bits as they were, and a
\* read of 0x4000-0x7FFF returns the byte of a bank other than 0x00, 0x20,
\* 0x40 and 0x60.
C9_LowBankBitsNeverZero ==
    LET c == mmu.cartridge
    IN  /\ c.bank % 32 # 0
        /\ Mbc1RomBank(c) \notin {\h00, \h20, \h40, \h60}
        /\ (last.op = "set" /\ last.a \in \h2000..\h3fff /\ last.v % 32 = 0)
               => c.bank % 32 = 1
        /\ (last.op = "set" /\ last.a \in \h4000..\h7fff)
               => c.bank % 32 = pre.bank % 32
        /\ (last.op = "get" /\ last.a \in \h4000..\h7fff)
               => \E b \in (0..127) \ {\h00, \h20, \h40, \h60} :
                      last.r = BankByte(b, last.a - \h4000) /\ b = Mbc1RomBank(c)

\* C9 witness: 0x20 written to 0x2000-0x3FFF while the upper bits are
\* non-zero, so that bank 0x20, 0x40 or 0x60 was asked for
C9_Witness ==
    /\ last.op = "set" /\ last.a \in \h2000..\h3fff /\ last.v = \h20
    /\ pre.bank \div 32 # 0
    /\ mmu.cartridge.bank % 32 = 1

\* C10: for MBC1, in ROM mode the two bits written to 0x4000-0x5FFF are
\* bits 5-6 of the ROM bank read at 0x4000-0x7FFF and every cartridge-RAM
\* access uses RAM bank 0; in RAM mode the ROM bank is the low five bits
\* only and the two bits select the RAM bank; a write of the mode changes
\* neither the stored bank bits nor the RAM contents.
C10_Mbc1Modes ==
    LET c    == mmu.cartridge
        lo5  == c.bank % 32
        hi2  == (c.bank \div 32) % 4
        rom  == IF c.bank_mode = "Rom" THEN hi2 * 32 + lo5 ELSE lo5
        ramb == IF c.bank_mode = "Rom" THEN 0 ELSE hi2
        cell == ramb * 8192 + (last.a - \ha000)
    IN  ~Faulted(mmu) =>
        /\ (last.op = "set" /\ last.a \in \h4000..\h5fff)
               => hi2 = last.v % 4 /\ c.ram = pre.ram /\ c.bank_mode = pre.bank_mode
        /\ (last.op = "get" /\ last.a \in \h4000..\h7fff)
               => last.r = BankByte(rom, last.a - \h4000)
        /\ (last.op = "get" /\ last.a \in \ha000..\hbfff /\ c.ram_enable)
               => last.r = MemGet(c.ram, cell)
        /\ (last.op = "set" /\ last.a \in \ha000..\hbfff /\ c.ram_enable)
               => c.ram = MemSet(pre.ram, cell, last.v) /\ c.bank = pre.bank
        /\ (last.op = "set" /\ last.a \in \h6000..\h7fff)
               => /\ c.bank = pre.bank
                  /\ c.ram = pre.ram
                  /\ c.bank_mode = IF last.v = 0 THEN "Rom" ELSE "Ram"

\* C10 witness: the mode is switched from ROM to RAM while the two upper
\* bits are set and RAM bank 0 holds data
C10_Witness ==
    /\ last.op = "set" /\ last.a \in \h6000..\h7fff /\ last.v = 1
    /\ pre.bank_mode = "Rom" /\ mmu.cartridge.bank_mode = "Ram"
    /\ pre.bank \div 32 = 3
    /\ MemGet(mmu.cartridge.ram, 0) = \h5a

---------------------------------------------------------------------------
(* SpecTimer: the timer behind the bus, started with TAC = 0b101 and       *)
(* DIV and TIMA at 0, and fed clocks in steps of any of the sizes below.   *)

\* The 32 KiB ROM-only cartridge that holds Program
FixtureCart == CartPowerUp("RomOnly", 32768, 0)

\* Clocks fed in all: up to the last clock before the first increment
\* after the overflow of TIMA
MaxFed == 4110

\* The sizes of one step: single clocks (any split), the counts
\* Cpu::next returns (4, 8, 12, 16, 20, 24) and longer stalls
FeedSizes == {1, 4, 8, 12, 16, 20, 24, 80}

TmaValues == {\h00, \hab, \hff}

\* The bus after power_up and the writes TMA = tma, TAC = 0b101, TIMA = 0,
\* DIV = 0 (the write of TAC reloads TIMA from TMA, so TIMA is written last)
TimerStart(tma) ==
    MmuWriteAll(MmuPowerUp(FixtureCart),
                << <<\hff06, tma>>, <<\hff07, \h05>>, <<\hff05, \h00>>,
                   <<\hff04, \h00>> >>, 1)

TimerInit ==
    /\ \E tma \in TmaValues : mmu = TimerStart(tma)
    /\ cpu = CpuPowerUp
    /\ last = PowerUp
    /\ pre = [early |-> TRUE]
    /\ apu = ApuPowerUp(SampleRate)
    /\ host = HostPowerUp
    /\ fed = 0

\* Clocks fed before TIMA, started at 0, has made 0x100 increments
Early(n) == n < 256 * 16

\* MemoryManagementUnit::do_cycle, the timer's part: Timer::next with the
\* clocks of the step, its interrupt bit OR-ed into IF
TimerFeed ==
    \E n \in FeedSizes :
        LET d == TimerNext(mmu.timer, n)
        IN  /\ fed + n <= MaxFed
            /\ mmu' = [mmu EXCEPT !.timer = d.timer,
                                  !.interrupt = BitOr(@, d.interrupt)]
            /\ last' = [op |-> "next", a |-> 0, v |-> 0, r |-> d.interrupt]
            /\ pre' = [early |-> Early(fed)]
            /\ UNCHANGED <<apu, host>>
            /\ fed' = fed + n
            /\ UNCHANGED cpu

TimerNextStep == TimerFeed

SpecTimer == TimerInit /\ [][TimerNextStep]_vars

\* C8 (as the code has it): with TAC = 0b101 and DIV/TIMA at 0, after n
\* clocks fed to the timer in steps of any sizes TIMA holds n / 16 (one
\* increment per 16 clocks) and IF bit 2 is clear, up to 0xFF * 16 + 15
\* clocks; the overflow comes with the 256th increment, after 0x100 * 16
\* clocks, when TIMA is reloaded from TMA and IF bit 2 is raised.
C8_TimaPerSixteenClocks ==
    /\ fed < 256 * 16 =>
           /\ mmu.timer.tima = fed \div 16
           /\ Bit(mmu.interrupt, FlagTimer) = 0
    /\ (fed >= 256 * 16 /\ fed < 257 * 16) =>
           /\ mmu.timer.tima = mmu.timer.tma
           /\ Bit(mmu.interrupt, FlagTimer) = 1
    /\ last.op = "next" =>
           last.r = IF pre.early /\ fed >= 256 * 16 THEN 2 ^ FlagTimer ELSE 0

\* C8 witness: the step in which TIMA overflows, fed in a step that does
\* not end on a multiple of 16
C8_Witness ==
    /\ last.op = "next" /\ pre.early /\ last.r = 2 ^ FlagTimer
    /\ fed % 16 # 0
    /\ mmu.timer.tma = \hab /\ mmu.timer.tima = \hab

\* C8 (as stated): after 0xFF * 16 clocks TIMA has overflowed, holds TMA
\* and IF bit 2 is raised.
C8_OverflowAfter255Periods ==
    fed = 255 * 16 =>
        mmu.timer.tima = mmu.timer.tma /\ Bit(mmu.interrupt, FlagTimer) = 1

---------------------------------------------------------------------------
(* SpecTimerIrq: from power-up, the bus writes TMA = 0xAB, TIMA = 0xFF,    *)
(* TAC = 0b101 and IE = 0x04 in any order, then 16 clocks through          *)
(* MemoryManagementUnit::do_cycle in steps of 4, 8 or 16, then one         *)
(* Cpu::next.  pre is the list of the addresses written, in order.         *)

IrqWrites == {<<\hff06, \hab>>, <<\hff05, \hff>>, <<\hff07, \h05>>, <<\hffff, \h04>>}

\* Clocks fed before the CPU step
IrqClocks == 16

IrqFeedSizes == {4, 8, 16}

\* Whether address a was written, and its place in the order
Written(a) == \E i \in 1..Len(pre) : pre[i] = a

Place(a) == CHOOSE i \in 1..Len(pre) : pre[i] = a

IrqInit ==
    /\ mmu = MmuPowerUp(FixtureCart)
    /\ cpu = CpuPowerUp
    /\ last = PowerUp
    /\ pre = << >>
    /\ apu = ApuPowerUp(SampleRate)
    /\ host = HostPowerUp
    /\ fed = 0

\* One of the bus writes that has not been made yet
IrqWrite ==
    \E w \in IrqWrites :
        /\ last.op \in {"power_up", "set"}
        /\ ~Written(w[1])
        /\ mmu' = MmuSet(mmu, w[1], w[2])
        /\ last' = [op |-> "set", a |-> w[1], v |-> w[2], r |-> 0]
        /\ pre' = Append(pre, w[1])
        /\ UNCHANGED <<apu, host>>
        /\ UNCHANGED <<cpu, fed>>

\* MemoryManagementUnit::do_cycle with n clocks, once the writes are made
IrqFeed ==
    \E n \in IrqFeedSizes : \E d \in {MmuDoCycle(mmu, n)} :
        /\ Len(pre) = Cardinality(IrqWrites)
        /\ last.op \in {"set", "do_cycle"}
        /\ fed + n <= IrqClocks
        /\ mmu' = d.mmu
        /\ last' = [op |-> "do_cycle", a |-> 0, v |-> n, r |-> d.raised]
        /\ UNCHANGED <<apu, host>>
        /\ fed' = fed + n
        /\ UNCHANGED <<cpu, pre>>

\* Cpu::next, once the clocks are fed
IrqStep ==
    \E n \in {CpuNext([cpu |-> cpu, mmu |-> mmu])} :
        /\ last.op = "do_cycle"
        /\ fed = IrqClocks
        /\ cpu' = n.st.cpu
        /\ mmu' = n.st.mmu
        /\ last' = [op |-> "next", a |-> cpu.reg.pc, v |-> 0, r |-> n.c]
        /\ UNCHANGED <<apu, host>>
        /\ UNCHANGED <<pre, fed>>

IrqNext == IrqWrite \/ IrqFeed \/ IrqStep

SpecTimerIrq == IrqInit /\ [][IrqNext]_vars

\* The writes were made with TIMA after TAC
TimaAfterTac == Len(pre) = 4 /\ Place(\hff05) > Place(\hff07)

\* The writes were made in the order TMA, TIMA, TAC (IE anywhere)
ListedOrder ==
    /\ Len(pre) = 4
    /\ Place(\hff06) < Place(\hff05)
    /\ Place(\hff05) < Place(\hff07)

\* C3 (as the code has it): the write of TAC that changes bits 1-0 reloads
\* TIMA from TMA.  With TIMA = 0xFF written after TAC = 0b101, feeding 16
\* clocks overflows TIMA: it holds TMA = 0xAB (not 0x00), IF bit 2 is
\* raised in the MMU step that completes the 16 clocks, and the next CPU
\* step dispatches the Timer interrupt (PC = 0x0050, IF bit 2 cleared, the
\* old PC pushed).  With TIMA written before TAC the value 0xFF is lost:
\* after 16 clocks TIMA is one above the TMA of the time of the TAC write,
\* IF bit 2 stays clear and the CPU step executes the instruction at PC.
C3_TimerOverflowDispatch ==
    /\ (TimaAfterTac /\ fed = IrqClocks /\ last.op = "do_cycle") =>
           /\ mmu.timer.tima = \hab
           /\ last.r = 2 ^ FlagTimer
           /\ Bit(mmu.interrupt, FlagTimer) = 1
    /\ (TimaAfterTac /\ last.op = "next") =>
           /\ cpu.reg.pc = \h0050
           /\ Bit(mmu.interrupt, FlagTimer) = 0
           /\ ~cpu.enable_interrupts
           /\ MmuGetWord(mmu, cpu.reg.sp) = last.a
           /\ last.r = 4
    /\ (Len(pre) = 4 /\ ~TimaAfterTac /\ fed = IrqClocks) =>
           /\ mmu.timer.tima =
                  IF Place(\hff06) < Place(\hff07) THEN \hac ELSE \h01
           /\ Bit(mmu.interrupt, FlagTimer) = 0
           /\ last.op = "next" => cpu.reg.pc = \h0102

\* C3 witness: the Timer interrupt dispatched after the writes TMA, TAC,
\* TIMA and 16 clocks
C3_Witness ==
    /\ TimaAfterTac /\ Place(\hff06) < Place(\hff07)
    /\ last.op = "next" /\ cpu.reg.pc = \h0050
    /\ mmu.timer.tima = \hab

\* C3 (as stated): after the writes in the listed order TMA, TIMA, TAC and
\* 16 clocks TIMA holds 0xAB, IF bit 2 was raised in that MMU step and the
\* next CPU step sets PC = 0x0050.
C3_ListedOrderOverflows ==
    /\ (ListedOrder /\ fed = IrqClocks /\ last.op = "do_cycle") =>
           mmu.timer.tima = \hab /\ last.r = 2 ^ FlagTimer
    /\ (ListedOrder /\ last.op = "next") => cpu.reg.pc = \h0050

---------------------------------------------------------------------------
(* SpecCpu: the CPU on the ROM-only fixture.  From power-up the bus        *)
(* writes IF and IE; then Cpu::next runs Program step by step while the    *)
(* joypad may raise its interrupt.  pre is the CPU and the bus before the  *)
(* last operation, fed the clocks Cpu::next has returned in all, last.v    *)
(* the number of steps taken, last.a the PC before the step.               *)

\* Steps of Cpu::next in one run
MaxSteps == 8

\* Every combination of bits 0-4, and values with the unused bits set
IfValues == (0..31) \cup {\he0, \he5, \hf8}

IeValues == {\h00, \h05, \h1a, \h1f, \hff}

CpuInit ==
    /\ \E intf \in IfValues, inte \in IeValues :
           mmu = MmuWriteAll(MmuPowerUp(FixtureCart),
                             << <<\hff0f, intf>>, <<\hffff, inte>> >>, 1)
    /\ cpu = CpuPowerUp
    /\ last = PowerUp
    /\ pre = [cpu |-> CpuPowerUp, mmu |-> MmuPowerUp(FixtureCart)]
    /\ apu = ApuPowerUp(SampleRate)
    /\ host = HostPowerUp
    /\ fed = 0

\* Cpu::next, which of its three returns it leaves by
StepKindOf(h) ==
    IF h.c # 0 THEN "dispatch" ELSE IF h.st.cpu.halted THEN "halted" ELSE "ex"

StepKind(s) == StepKindOf(HandleInterrupts(s))

\* Cpu::next
CpuStep ==
    \E s \in {[cpu |-> cpu, mmu |-> mmu]} : \E n \in {CpuNext(s)} :
        /\ last.v < MaxSteps
        /\ ~Faulted(mmu)
        /\ Fetches(s) => Executable(s)
        /\ cpu' = n.st.cpu
        /\ mmu' = n.st.mmu
        /\ last' = [op |-> StepKind(s), a |-> cpu.reg.pc, v |-> last.v + 1, r |-> n.c]
        /\ pre' = s
        /\ UNCHANGED <<apu, host>>
        /\ fed' = fed + n.c

\* Joypad::keydown(JoypadKey::Start)
KeyDown ==
    /\ ~Faulted(mmu)
    /\ mmu.joypad.matrix = \hff
    /\ mmu' = [mmu EXCEPT !.joypad.matrix = BitAnd(@, \h7f),
                          !.interrupt = IntfHi(@, FlagJoypad)]
    /\ last' = [last EXCEPT !.op = "keydown"]
    /\ pre' = [cpu |-> cpu, mmu |-> mmu]
    /\ UNCHANGED <<apu, host>>
    /\ UNCHANGED <<cpu, fed>>

CpuSpecNext == CpuStep \/ KeyDown

SpecCpu == CpuInit /\ [][CpuSpecNext]_vars

\* IF & IE before the last operation
PendingBefore == BitAnd(pre.mmu.interrupt, pre.mmu.enable_interrupts)

\* The lowest-numbered bit set in a (a # 0)
LowestBit(a) == CHOOSE n \in 0..7 : Bit(a, n) = 1 /\ \A k \in 0..(n - 1) : Bit(a, k) = 0

\* The number of bits 0-4 set in a
BitCount(a) == Cardinality({n \in 0..4 : Bit(a, n) = 1})

\* C1: a CPU step that begins with master-enable set and bits set in
\* IF & IE services only the lowest-numbered pending bit n: exactly bit n
\* of IF is cleared, master-enable is cleared, the old PC is pushed and
\* PC = 0x0040 + 8n; a step that begins with master-enable clear
\* dispatches nothing and leaves IF as it was, so the other pending bits
\* wait for a later step after master-enable is set again.
C1_LowestPendingFirst ==
    LET n == LowestBit(PendingBefore)
        step == last.op \in {"dispatch", "halted", "ex"}
    IN  /\ (step /\ pre.cpu.enable_interrupts /\ PendingBefore # 0) =>
               /\ last.op = "dispatch"
               /\ mmu.interrupt = pre.mmu.interrupt - 2 ^ n
               /\ ~cpu.enable_interrupts
               /\ ~cpu.halted
               /\ cpu.reg.pc = \h0040 + 8 * n
               /\ cpu.reg.sp = pre.cpu.reg.sp - 2
               /\ MmuGet(mmu, cpu.reg.sp) = pre.cpu.reg.pc % 256
               /\ MmuGet(mmu, cpu.reg.sp + 1) = pre.cpu.reg.pc \div 256
               /\ mmu.enable_interrupts = pre.mmu.enable_interrupts
        /\ (step /\ ~(pre.cpu.enable_interrupts /\ PendingBefore # 0)) =>
               /\ last.op # "dispatch"
               /\ mmu.interrupt = pre.mmu.interrupt

\* C1 witness: a second dispatch in one run: several of bits 0-4 were
\* pending, an earlier step serviced a lower one, master-enable was set
\* again (RETI or EI), and this step services bit 3 while bit 4 waits
C1_Witness ==
    /\ last.op = "dispatch" /\ last.v >= 3
    /\ BitCount(PendingBefore) >= 2
    /\ cpu.reg.pc = \h0058
    /\ Bit(mmu.interrupt, 4) = 1 /\ Bit(mmu.interrupt, 1) = 0

\* C6 (as stated): from the post-boot state with LD A,0x42 ; HALT at PC,
\* the two steps that execute these instructions return 12 clocks in all
\* (8 and 4); afterwards A = 0x42 and the CPU is halted.
C6_LdHaltTwelveClocks ==
    (last.v = 2 /\ last.op = "ex" /\ last.a = \h0102 /\ cpu.reg.pc = \h0103) =>
        /\ fed = 12
        /\ last.r = 4
        /\ cpu.reg.a = \h42
        /\ cpu.halted

\* C7 (as stated): a step of the halted CPU with nothing pending returns 4
\* clocks, the unit in which an executed instruction of m machine cycles
\* returns 4m (LD A,d8: 8), and leaves the CPU and the bus as they were.
C7_HaltedStepFourClocks ==
    /\ (last.op = "halted" /\ BitAnd(PendingBefore, \h1f) = 0) =>
           /\ last.r = 4
           /\ cpu = pre.cpu
           /\ mmu = pre.mmu
    /\ (last.op = "ex" /\ last.a = \h0100) => last.r = 4 * OP_CYCLES[\h3e + 1]

---------------------------------------------------------------------------
(* SpecEx: one instruction at a time.  The instruction is written to work  *)
(* RAM at 0xC000 (opcode, then the operand bytes 0x10 0xC0, or the CB      *)
(* code), PC points at it and the flags Z and C take every combination;    *)
(* Cpu::next then runs it, and the instruction that follows it.            *)

\* The address of the instruction
ExPc == 49152

\* Steps of Cpu::next in one run
MaxExSteps == 2

\* F with Z (bit 7) and C (bit 4) in every combination
ExFlags == {\h00, \h10, \h80, \h90}

\* The second byte of the instruction
ExSecondBytes(opcode) == IF opcode = \hcb THEN ModelledCbcodes ELSE {\h10}

ExInit ==
    /\ \E opcode \in ModelledOpcodes, f \in ExFlags :
         \E b \in ExSecondBytes(opcode) :
           /\ mmu = MmuWriteAll(MmuPowerUp(FixtureCart),
                                << <<ExPc, opcode>>, <<ExPc + 1, b>>,
                                   <<ExPc + 2, \hc0>> >>, 1)
           /\ cpu = [CpuPowerUp EXCEPT !.reg.pc = ExPc, !.reg.f = f,
                                       !.enable_interrupts = FALSE]
           /\ pre = [cpu |-> [CpuPowerUp EXCEPT !.reg.pc = ExPc, !.reg.f = f,
                                                !.enable_interrupts = FALSE],
                     mmu |-> MmuPowerUp(FixtureCart)]
    /\ last = PowerUp
    /\ apu = ApuPowerUp(SampleRate)
    /\ host = HostPowerUp
    /\ fed = 0

\* Cpu::next
ExStep ==
    \E s \in {[cpu |-> cpu, mmu |-> mmu]} : \E n \in {CpuNext(s)} :
        /\ last.v < MaxExSteps
        /\ ~Faulted(mmu)
        /\ Fetches(s) => Executable(s)
        /\ cpu' = n.st.cpu
        /\ mmu' = n.st.mmu
        /\ last' = [op |-> StepKind(s), a |-> cpu.reg.pc, v |-> last.v + 1, r |-> n.c]
        /\ pre' = s
        /\ UNCHANGED <<apu, host>>
        /\ fed' = fed + n.c

ExNext == ExStep

SpecEx == ExInit /\ [][ExNext]_vars

\* The opcode and the second byte of the instruction the last step ran
RanOpcode == MmuGet(pre.mmu, last.a)

RanSecond == MmuGet(pre.mmu, last.a + 1)

\* The bytes the instruction occupies
OpLength(opcode) ==
    IF opcode \in JpCcOpcodes \cup CallCcOpcodes THEN 3
    ELSE IF opcode \in JrCcOpcodes THEN 2
    ELSE 1

\* Whether the conditional branch the last step ran changed PC: PC is not
\* at the instruction that follows it
BranchTaken == cpu.reg.pc # last.a + OpLength(RanOpcode)

\* The clocks a taken branch adds
TakenBonus(opcode) ==
    IF opcode \in JrCcOpcodes \cup JpCcOpcodes THEN 4
    ELSE IF opcode \in RetCcOpcodes \cup CallCcOpcodes THEN 12
    ELSE 0

\* C4 (as stated): the step that executes a valid primary opcode returns
\* OP_CYCLES[op] * 4 clocks, plus 4 for a taken JR cc or JP cc and 12 for
\* a taken RET cc or CALL cc, taken being the condition that decides
\* whether the branch changes PC, and nothing for a branch not taken; a
\* CB-prefixed opcode returns CB_CYCLES[cb] * 4.
C4_StepClocks ==
    (last.op = "ex" /\ last.v = 1 /\ ~Faulted(mmu)) =>
        last.r = IF RanOpcode = \hcb THEN CB_CYCLES[RanSecond + 1] * 4
                 ELSE OP_CYCLES[RanOpcode + 1] * 4
                      + (IF BranchTaken THEN TakenBonus(RanOpcode) ELSE 0)

---------------------------------------------------------------------------
(* SpecGpu: the PPU as MemoryManagementUnit::do_cycle drives it, at        *)
(* single speed with the LCD on (LCDC = 0x91 after power-up).  fed is the  *)
(* number of clocks handed to Gpu::next so far, counted modulo the frame;  *)
(* pre is LY before the last step.                                         *)

\* Dots per frame: 154 lines of 456 dots
FrameDots == 70224

\* The pairs (ticks, vramticks) of a step: ticks is what the MotherBoard
\* passes (4 for a halted step, 16 for NOP or a dispatch, 80 for
\* LD (a16),SP or a taken RET cc), vramticks the stall of a GDMA of nine
\* rows
GpuStepInputs == {<<4, 0>>, <<16, 0>>, <<80, 0>>, <<16, 72>>}

\* The PPU's place in the frame, in dots
GpuPosition(g) == g.ly * 456 + g.dots

\* How many times 80 clocks the PPU is behind the clocks fed
Behind(g, n) == ((n + FrameDots - GpuPosition(g)) % FrameDots) \div 80

\* Steps that leave the PPU behind are followed up to this count
MaxBehind == 1

GpuInit ==
    /\ mmu = MmuPowerUp(FixtureCart)
    /\ cpu = CpuPowerUp
    /\ last = PowerUp
    /\ pre = [ly |-> 0]
    /\ apu = ApuPowerUp(SampleRate)
    /\ host = HostPowerUp
    /\ fed = 0

\* MemoryManagementUnit::do_cycle, the PPU's part: Gpu::next with
\* gputicks, its interrupt bits OR-ed into IF
GpuStep ==
    \E i \in GpuStepInputs :
        LET gt == GpuTicks(i[1], mmu.speed, i[2])
            g  == GpuNext(mmu.gpu, gt)
        IN  /\ Behind(g.gpu, fed + gt) <= MaxBehind
            /\ mmu' = [mmu EXCEPT !.gpu = g.gpu,
                                  !.interrupt = BitOr(@, g.interrupt)]
            /\ last' = [op |-> "gpu", a |-> 0, v |-> 0, r |-> g.interrupt]
            /\ pre' = [ly |-> mmu.gpu.ly]
            /\ UNCHANGED <<apu, host>>
            /\ fed' = (fed + gt) % FrameDots
            /\ UNCHANGED cpu

GpuSpecNext == GpuStep

SpecGpu == GpuInit /\ [][GpuSpecNext]_vars

\* C2 (as stated): with the LCD on at single speed, after any sequence of
\* steps LY is the line that the clocks fed to the PPU have reached, so
\* that LY runs through 0..153 once per 70224 clocks, and IF bit 0 is
\* raised in exactly the steps in which LY passes from 143 to 144.
C2_FramePeriod ==
    /\ mmu.gpu.ly = fed \div 456
    /\ last.op = "gpu" =>
           (Bit(last.r, FlagVBlank) = 1 <=> (pre.ly < 144 /\ mmu.gpu.ly >= 144))

\* VBlank is raised exactly in the steps in which LY passes to line 144
GpuVBlankOnEntry ==
    last.op = "gpu" =>
        (Bit(last.r, FlagVBlank) = 1 <=> (pre.ly < 144 /\ mmu.gpu.ly >= 144))

---------------------------------------------------------------------------
(* SpecBus: the bus of a powered-up machine, with either cartridge, under  *)
(* arbitrary reads and writes.  fed counts the accesses.                   *)

\* Bus accesses in one run
MaxBusOps == 2

\* At least one address of every arm of the bus's match, and of every arm
\* of the devices behind it that treats addresses differently
BusAddrs ==
    {\h0000, \h2000, \h4000, \h6000, \h8000, \ha000, \hc000, \hd000, \he000,
     \hfe00, \hfea0, \hff00, \hff01, \hff03, \hff04, \hff07, \hff0f, \hff10,
     \hff40, \hff41, \hff44, \hff46, \hff4c, \hff4d, \hff4f, \hff50, \hff51,
     \hff55, \hff68, \hff69, \hff70, \hff7f, \hff80, \hffff}

BusValues == {\h00, \h01, \h0a, \h80, \hff}

BusCarts == {FixtureCart, CartPowerUp("Mbc1", Mbc1RomLen, Mbc1RamLen)}

BusInit ==
    /\ \E c \in BusCarts : mmu = MmuPowerUp(c)
    /\ cpu = CpuPowerUp
    /\ last = PowerUp
    /\ pre = MmuPowerUp(FixtureCart)
    /\ apu = ApuPowerUp(SampleRate)
    /\ host = HostPowerUp
    /\ fed = 0

\* MemoryManagementUnit::set
BusWrite ==
    \E a \in BusAddrs, v \in BusValues :
        /\ fed < MaxBusOps
        /\ ~Faulted(mmu)
        /\ mmu' = MmuSet(mmu, a, v)
        /\ last' = [op |-> "set", a |-> a, v |-> v, r |-> 0]
        /\ pre' = mmu
        /\ UNCHANGED <<apu, host>>
        /\ fed' = fed + 1
        /\ UNCHANGED cpu

\* MemoryManagementUnit::get
BusRead ==
    \E a \in BusAddrs :
        /\ fed < MaxBusOps
        /\ ~Faulted(mmu)
        /\ mmu' = IF MmuGet(mmu, a) = Fault THEN [mmu EXCEPT !.fault = TRUE] ELSE mmu
        /\ last' = [op |-> "get", a |-> a, v |-> 0, r |-> MmuGet(mmu, a)]
        /\ pre' = mmu
        /\ UNCHANGED <<apu, host>>
        /\ fed' = fed + 1
        /\ UNCHANGED cpu

BusNext == BusWrite \/ BusRead

SpecBus == BusInit /\ [][BusNext]_vars

\* The addresses of BusAddrs with no device or storage behind them
Unbacked == {\hfea0, \hff03, \hff4c, \hff50, \hff7f}

\* C5 (as stated): in every state reached by bus writes, a bus read
\* returns a byte and a bus write completes without a fault; a read of an
\* address with nothing behind it returns 0 and a write to it changes
\* nothing.
C5_BusTotal ==
    /\ ~Faulted(mmu)
    /\ last.op = "get" => last.r \in Byte
    /\ (last.op = "get" /\ last.a \in Unbacked) => last.r = 0
    /\ (last.op = "set" /\ last.a \in Unbacked) => mmu = pre

---------------------------------------------------------------------------
(* SpecRom: a cartridge of every controller behind the bus, with a ROM     *)
(* image of 512 KiB (32 KiB for the ROM-only cartridge), driven by bus     *)
(* writes to the control ranges and reads of the two ROM windows.          *)

\* 32 banks of 16 KiB
RomLen == 524288

\* Bus writes before the reads
MaxRomOps == 2

RomKinds == {"RomOnly", "Mbc1", "Mbc2", "Mbc3", "Mbc5", "HuC1"}

\* One address in each control range (0x2100 has bit 8 set, for Mbc2) and
\* values that select banks inside and outside the image
RomWrites ==
    {\h0000, \h2000, \h2100, \h3000, \h4000, \h6000} \X {\h00, \h01, \h05, \h21}

RomReads == {\h0000, \h3fff, \h4000, \h7fff}

RomInit ==
    /\ \E k \in RomKinds :
          mmu = MmuPowerUp(CartPowerUp(k, IF k = "RomOnly" THEN 32768 ELSE RomLen,
                                       Mbc1RamLen))
    /\ cpu = CpuPowerUp
    /\ last = PowerUp
    /\ pre = FixtureCart
    /\ apu = ApuPowerUp(SampleRate)
    /\ host = HostPowerUp
    /\ fed = 0

\* A bus write that the cartridge receives
RomWrite ==
    \E w \in RomWrites :
        /\ fed < MaxRomOps
        /\ ~Faulted(mmu)
        /\ mmu' = MmuSet(mmu, w[1], w[2])
        /\ last' = [op |-> "set", a |-> w[1], v |-> w[2], r |-> 0]
        /\ pre' = mmu.cartridge
        /\ UNCHANGED <<apu, host>>
        /\ fed' = fed + 1
        /\ UNCHANGED cpu

\* A bus read of the ROM windows
RomRead ==
    \E a \in RomReads :
        /\ ~Faulted(mmu)
        /\ mmu' = IF MmuGet(mmu, a) = Fault THEN [mmu EXCEPT !.fault = TRUE] ELSE mmu
        /\ last' = [op |-> "get", a |-> a, v |-> 0, r |-> MmuGet(mmu, a)]
        /\ pre' = mmu.cartridge
        /\ UNCHANGED <<apu, host>>
        /\ UNCHANGED <<cpu, fed>>

RomNext == RomWrite \/ RomRead

SpecRom == RomInit /\ [][RomNext]_vars

\* The bank the controller has selected for 0x4000-0x7FFF
SelectedBank(c) ==
    CASE c.kind = "RomOnly" -> 1
      [] c.kind \in {"Mbc1", "HuC1"} -> Mbc1RomBank(c)
      [] OTHER -> c.rom_bank

\* C11: for every controller, after any sequence of bus writes a read of a
\* in 0x0000-0x3FFF returns rom[a] and a read of a in 0x4000-0x7FFF returns
\* rom[bank * 0x4000 + (a - 0x4000)] for the selected bank; after 0x05 is
\* written to 0x2000 on MBC1, 0x4000 reads the byte at offset 0x14000.
C11_RomReads ==
    LET c == mmu.cartridge
    IN  /\ (last.op = "get" /\ last.a \in \h0000..\h3fff)
               => last.r = RomByte(last.a)
        /\ (last.op = "get" /\ last.a \in \h4000..\h7fff)
               => last.r = RomByte(SelectedBank(c) * \h4000 + (last.a - \h4000))
        /\ (last.op = "get" /\ last.a = \h4000 /\ c.kind = "Mbc1" /\ c.bank = \h05)
               => last.r = RomByte(\h14000)

---------------------------------------------------------------------------
(* SpecLoad: cartridge::power_up on ROM files whose header is well formed  *)
(* except for the bytes in pre.bad, each of which is replaced by its       *)
(* complement.                                                             *)

\* The header of a well-formed file up to the checksum byte: the logo, a
\* one-letter title, the type byte and the two size bytes
HeaderBytes(type, romsize, ramsize) ==
    [a \in \h0104..\h014c |->
        IF a <= \h0133 THEN NINTENDO_LOGO[a - \h0103]
        ELSE IF a = \h0134 THEN \h54
        ELSE IF a = \h0147 THEN type
        ELSE IF a = \h0148 THEN romsize
        ELSE IF a = \h0149 THEN ramsize
        ELSE 0]

\* The non-zero bytes of f
NonZero(f) == [a \in {x \in DOMAIN f : f[x] # 0} |-> f[a]]

\* The well-formed header with its checksum byte
GoodHeader(type, romsize, ramsize) ==
    MemSet(NonZero(HeaderBytes(type, romsize, ramsize)), \h014d,
           HeaderChecksum(NonZero(HeaderBytes(type, romsize, ramsize)), \h0134, 0))

\* rom with the bytes at the addresses in bad complemented
Corrupt(rom, bad) ==
    NonZero([a \in \h0104..\h014d |->
                IF a \in bad THEN 255 - MemGet(rom, a) ELSE MemGet(rom, a)])

LoadTypes == {\h00, \h01, \h03, \h04, \h06, \h13, \h1b, \hff}

LoadRomSizes == {\h00, \h09}

LoadRamSizes == {\h03, \h06}

\* 32 KiB, the size for code 0x00, and one byte more
LoadLens == {32768, 32769}

\* First and last byte of the logo, first and last byte of the summed
\* range, and the checksum byte
LoadBadAddrs == {\h0104, \h0133, \h0134, \h014c, \h014d}

LoadInit ==
    /\ mmu = MmuPowerUp(FixtureCart)
    /\ cpu = CpuPowerUp
    /\ last = PowerUp
    /\ \E type \in LoadTypes, romsize \in LoadRomSizes, ramsize \in LoadRamSizes,
          len \in LoadLens, debug \in BOOLEAN, bad \in SUBSET LoadBadAddrs :
          pre = [rom   |-> Corrupt(GoodHeader(type, romsize, ramsize), bad),
                 len   |-> len, debug |-> debug, bad |-> bad]
    /\ apu = ApuPowerUp(SampleRate)
    /\ host = HostPowerUp
    /\ fed = 0

\* cartridge::power_up and, when it returns, MemoryManagementUnit::power_up
Load ==
    \E c \in {CartridgePowerUp(pre.rom, pre.len, pre.debug)} :
        /\ fed = 0
        /\ mmu' = IF c.outcome = "Ok" THEN MmuPowerUp(c.cart) ELSE mmu
        /\ last' = [op |-> "load", a |-> 0, v |-> 0, r |-> c.outcome]
        /\ UNCHANGED <<apu, host>>
        /\ fed' = 1
        /\ UNCHANGED <<cpu, pre>>

LoadNext == Load

SpecLoad == LoadInit /\ [][LoadNext]_vars

RECURSIVE SumBytes(_, _, _)
\* The sum of the bytes of rom at lo..hi
SumBytes(rom, lo, hi) ==
    IF lo > hi THEN 0 ELSE MemGet(rom, lo) + SumBytes(rom, lo + 1, hi)

\* The value x obtained from 0 by x := x - rom[i] - 1 (mod 256) for the 25
\* bytes i = 0x0134..0x014C
StatedChecksum(rom) == (256 * 26 - SumBytes(rom, \h0134, \h014c) - 25) % 256

\* The type and size bytes are ones the loader accepts for the file
LoadSupported ==
    /\ MemGet(pre.rom, \h0147) \in
           {\h00, \h01, \h02, \h03, \h05, \h06, \h0f, \h10, \h11, \h12, \h13,
            \h19, \h1a, \h1b}
    /\ MemGet(pre.rom, \h0148) = \h00 /\ pre.len = 32768
    /\ MemGet(pre.rom, \h0149) = \h03

---------------------------------------------------------------------------
(* SpecTypes: cartridge::power_up on well-formed 32 KiB files of every     *)
(* type byte.                                                              *)

TypesInit ==
    /\ mmu = MmuPowerUp(FixtureCart)
    /\ cpu = CpuPowerUp
    /\ last = PowerUp
    /\ \E type \in 0..255, debug \in BOOLEAN :
          pre = [rom |-> GoodHeader(type, \h00, \h03), len |-> 32768,
                 debug |-> debug, bad |-> {}]
    /\ apu = ApuPowerUp(SampleRate)
    /\ host = HostPowerUp
    /\ fed = 0

SpecTypes == TypesInit /\ [][LoadNext]_vars

\* The controller stated for a type byte
StatedKind(b) ==
    CASE b = \h00 -> "RomOnly"
      [] b \in \h01..\h03 -> "Mbc1"
      [] b \in \h05..\h06 -> "Mbc2"
      [] b \in \h0f..\h13 -> "Mbc3"
      [] b \in \h19..\h1e -> "Mbc5"
      [] b = \hff -> "HuC1"
      [] OTHER -> "Unsupported"

\* C13: loading a ROM with valid logo, checksum and size codes succeeds
\* and selects the stated controller for every type byte 0x00, 0x01-0x03,
\* 0x05-0x06, 0x0F-0x13, 0x19-0x1E and 0xFF; every other type byte makes
\* loading fail as unsupported.
C13_TypeBytes ==
    last.op = "load" =>
        IF StatedKind(MemGet(pre.rom, \h0147)) = "Unsupported"
        THEN last.r = "UnsupportedType"
        ELSE /\ last.r = "Ok"
             /\ mmu.cartridge.kind = StatedKind(MemGet(pre.rom, \h0147))

\* C14: executing any of the opcodes 0xD3, 0xDB, 0xDD, 0xE3, 0xE4, 0xEB,
\* 0xEC, 0xED, 0xF4, 0xFC, 0xFD ends the run in the invalid-opcode failure,
\* with no further step, and the byte reported is the opcode that was
\* fetched; executing any other opcode never ends in that failure.
C14_InvalidOpcode ==
    /\ last.op = "ex" =>
          IF RanOpcode \in {\hd3, \hdb, \hdd, \he3, \he4, \heb, \hec, \hed, \hf4,
                            \hfc, \hfd}
          THEN Faulted(mmu) /\ cpu.not_implemented = RanOpcode
          ELSE cpu.not_implemented = Fault
    /\ cpu.not_implemented # Fault => ~ENABLED ExStep

---------------------------------------------------------------------------
(* SpecDma: the instruction LDH (a8),A in high RAM at 0xFF80, run by       *)
(* Cpu::next with A = V and a8 = 0x46 (the DMA register) or 0x45 (LYC),    *)
(* followed by bus reads of OAM.  Work RAM 0xC000-0xC09F holds 0x00..0x9F  *)
(* and OAM holds other bytes before the write.                             *)

\* The address of the instruction
DmaPc == 65408

\* The values written: a page in every arm of the bus's get
DmaPages ==
    {\h00, \h40, \h7f, \h80, \h9f, \ha0, \hc0, \hcf, \hd0, \he0, \hf0, \hfe, \hff}

\* The second byte of the instruction
DmaOperands == {\h45, \h46}

\* The OAM cells read back
DmaCells == {\h00, \h01, \h42, \h9f}

DmaCarts == {FixtureCart, CartPowerUp("Mbc1", Mbc1RomLen, Mbc1RamLen)}

\* The bus before the write
DmaBus(cart, a8) ==
    [MmuPowerUp(cart) EXCEPT
        !.wram = [i \in 1..\h9f |-> i],
        !.gpu.oam = [i \in {\h00, \h01, \h9f} |-> \h5a],
        !.gpu.ram = [i \in {\h00, \h42} |-> \h33],
        !.hram = [i \in {0, 1} |-> IF i = 0 THEN \he0 ELSE a8]]

DmaInit ==
    /\ \E cart \in DmaCarts, a8 \in DmaOperands, v \in DmaPages :
         /\ mmu = DmaBus(cart, a8)
         /\ cpu = [CpuPowerUp EXCEPT !.reg.pc = DmaPc, !.reg.a = v,
                                     !.enable_interrupts = FALSE]
         /\ pre = [cpu |-> [CpuPowerUp EXCEPT !.reg.pc = DmaPc, !.reg.a = v,
                                              !.enable_interrupts = FALSE],
                   mmu |-> DmaBus(cart, a8)]
    /\ last = PowerUp
    /\ apu = ApuPowerUp(SampleRate)
    /\ host = HostPowerUp
    /\ fed = 0

\* Cpu::next on the instruction
DmaStep ==
    \E s \in {[cpu |-> cpu, mmu |-> mmu]} : \E n \in {CpuNext(s)} :
        /\ last.op = "power_up"
        /\ cpu' = n.st.cpu
        /\ mmu' = n.st.mmu
        /\ last' = [op |-> StepKind(s), a |-> BitOr(\hff00, ImmByte(ImmNext(s))),
                    v |-> cpu.reg.a, r |-> n.c]
        /\ pre' = s
        /\ UNCHANGED <<apu, host>>
        /\ fed' = fed + n.c

\* MemoryManagementUnit::get of an OAM cell after the instruction
DmaRead ==
    \E i \in DmaCells :
        /\ last.op = "ex"
        /\ ~Faulted(mmu)
        /\ last' = [last EXCEPT !.op = "get", !.a = \hfe00 + i,
                                !.r = MmuGet(mmu, \hfe00 + i)]
        /\ UNCHANGED <<apu, host>>
        /\ UNCHANGED <<cpu, mmu, pre, fed>>

DmaNext == DmaStep \/ DmaRead

SpecDma == DmaInit /\ [][DmaNext]_vars

\* The bus with the OAM of another bus
WithOamOf(m, o) == [m EXCEPT !.gpu.oam = o.gpu.oam]

\* C15 (as stated): the step that writes V to 0xFF46 completes, leaves in
\* every OAM cell i the byte the bus held at (V<<8)+i before the write,
\* changes nothing outside OAM, and takes the 12 clocks of LDH (a8),A, the
\* same as when the instruction writes another register; a following read
\* of 0xFE00+i returns that byte.
C15_OamDma ==
    /\ (last.op = "ex" /\ last.a = \hff46) =>
          /\ ~Faulted(mmu)
          /\ \A i \in 0..\h9f :
                MmuGet(mmu, \hfe00 + i) = MmuGet(pre.mmu, last.v * 256 + i)
          /\ WithOamOf(mmu, pre.mmu) = pre.mmu
          /\ cpu = [pre.cpu EXCEPT !.reg.pc = DmaPc + 2]
          /\ last.r = 4 * OP_CYCLES[\he0 + 1]
    /\ (last.op = "ex" /\ last.a = \hff45) => last.r = 4 * OP_CYCLES[\he0 + 1]
    /\ (last.op = "get" /\ MmuGet(pre.mmu, DmaPc + 1) = \h46) =>
          last.r = MmuGet(pre.mmu, pre.cpu.reg.a * 256 + (last.a - \hfe00))

---------------------------------------------------------------------------
(* SpecSpeed: the machine stepped by MotherBoard::do_cycle through a       *)
(* loop of two instructions in work RAM at 0xC000, each one of             *)
(* "LD A,1; LDH (0x4D),A", "LD A,0; LDH (0x4D),A", STOP, NOP and HALT,     *)
(* closed by a JR to 0xC000, with the joypad interrupt enabled and a key   *)
(* press possible before any step (its handler at 0x0060 is RETI), and     *)
(* with reads of 0xFF4D.                                                   *)

\* Instructions in the loop
SpeedSlots == 2

\* Steps of MotherBoard::do_cycle in one run
MaxSpeedSteps == 7

SpeedInstrs ==
    {<<\h3e, \h01, \he0, \h4d>>, <<\h3e, \h00, \he0, \h4d>>, <<\h10>>, <<\h00>>,
     <<\h76>>}

RECURSIVE Flatten(_)
\* The bytes of a sequence of instructions
Flatten(p) == IF p = << >> THEN << >> ELSE Head(p) \o Flatten(Tail(p))

\* The bytes b followed by JR back to their first byte
Looped(b) == b \o <<\h18, 256 - (Len(b) + 2)>>

\* Work RAM holding the bytes b from 0xC000 on
SpeedRam(b) == [i \in {j \in 0..(Len(b) - 1) : b[j + 1] # 0} |-> b[i + 1]]

SpeedInit ==
    /\ \E p \in [1..SpeedSlots -> SpeedInstrs] :
          mmu = [MmuPowerUp(FixtureCart) EXCEPT !.wram = SpeedRam(Looped(Flatten(p))),
                                                !.enable_interrupts = \h10]
    /\ cpu = [CpuPowerUp EXCEPT !.reg.pc = ExPc, !.enable_interrupts = TRUE]
    /\ last = PowerUp
    /\ pre = [cpu |-> CpuPowerUp, mmu |-> MmuPowerUp(FixtureCart)]
    /\ apu = ApuPowerUp(SampleRate)
    /\ host = HostPowerUp
    /\ fed = 0

\* MotherBoard::do_cycle
SpeedStep ==
    \E s \in {[cpu |-> cpu, mmu |-> mmu]} : \E n \in {MotherBoardDoCycle(s)} :
        /\ last.v < MaxSpeedSteps
        /\ ~Faulted(mmu)
        /\ Fetches(s) => Executable(s)
        /\ cpu' = n.st.cpu
        /\ mmu' = n.st.mmu
        /\ last' = [op |-> "do_cycle", a |-> cpu.reg.pc, v |-> last.v + 1,
                    r |-> n.cycles]
        /\ pre' = s
        /\ UNCHANGED <<apu, host>>
        /\ fed' = fed + n.cycles

\* MemoryManagementUnit::get of 0xff4d
SpeedRead ==
    /\ last.op # "get"
    /\ ~Faulted(mmu)
    /\ last' = [last EXCEPT !.op = "get", !.a = \hff4d, !.r = MmuGet(mmu, \hff4d)]
    /\ pre' = [cpu |-> cpu, mmu |-> mmu]
    /\ UNCHANGED <<apu, host>>
    /\ UNCHANGED <<cpu, mmu, fed>>

SpeedNext == SpeedStep \/ KeyDown \/ SpeedRead

SpecSpeed == SpeedInit /\ [][SpeedNext]_vars

\* The byte at PC before the last step was STOP
AtStop == MmuGet(pre.mmu, pre.cpu.reg.pc) = \h10

\* The last step executed LDH (0x4D),A
WroteKey1 ==
    /\ StepKind(pre) = "ex"
    /\ MmuGet(pre.mmu, pre.cpu.reg.pc) = \he0
    /\ MmuGet(pre.mmu, pre.cpu.reg.pc + 1) = \h4d

\* C16: the speed changes only in a step of MotherBoard::do_cycle that
\* finds 0x10 at PC with the pending-shift flag set; such a step toggles
\* the speed once and leaves the flag clear; a step that finds 0x10 at PC
\* with the flag clear leaves the speed; a write of 0xFF4D sets the flag to
\* bit 0 of the byte written; a read of 0xFF4D returns 0x80 iff the speed
\* is double, plus 1 iff the flag is set.
C16_SpeedSwitch ==
    /\ mmu.speed \in {SpeedNormal, SpeedDouble}
    /\ last.op = "power_up" => mmu.speed = SpeedNormal /\ ~mmu.shift
    /\ last.op = "do_cycle" =>
          /\ (AtStop /\ pre.mmu.shift) =>
                mmu.speed = OtherSpeed(pre.mmu.speed) /\ ~mmu.shift
          /\ ~(AtStop /\ pre.mmu.shift) => mmu.speed = pre.mmu.speed
          /\ WroteKey1 => mmu.shift = (BitAnd(pre.cpu.reg.a, \h01) = \h01)
    /\ last.op \in {"keydown", "get"} =>
          mmu.speed = pre.mmu.speed /\ mmu.shift = pre.mmu.shift
    /\ last.op = "get" =>
          last.r = (IF mmu.speed = SpeedDouble THEN \h80 ELSE 0)
                   + (IF mmu.shift THEN 1 ELSE 0)

\* C16, the witness: a step that found STOP at PC with the flag set has
\* brought the speed back from double to normal
C16_Witness ==
    /\ last.op = "do_cycle"
    /\ AtStop
    /\ pre.mmu.shift
    /\ pre.mmu.speed = SpeedDouble
    /\ mmu.speed = SpeedNormal

---------------------------------------------------------------------------
(* SpecSweep: the APU powered on (NR52 = 0x80), then NR10, NR13 and NR14   *)
(* of square channel 1 written in that order, NR14 with the trigger bit,   *)
(* then NR52 read.                                                         *)

\* NR10: shift 0..7, negate clear and set, sweep period 0 and 1
SweepNr10 == (\h00..\h0f) \cup (\h10..\h1f)

\* NR13, the low byte of the frequency
SweepNr13 == {\h00, \h01, \h55, \haa, \hab, \hff}

\* NR14: the trigger bit, the length-enable bit clear and set, the high
\* bits of the frequency
SweepNr14 == {\h80 + le + f : le \in {\h00, \h40}, f \in 0..7}

SweepInit ==
    /\ mmu = MmuPowerUp(FixtureCart)
    /\ cpu = CpuPowerUp
    /\ apu = ApuSet(ApuPowerUp(SampleRate), \hff26, \h80)
    /\ host = HostPowerUp
    /\ last = PowerUp
    /\ pre = ApuPowerUp(SampleRate)
    /\ fed = 0

\* The address written at each place of the sequence
SweepAddr(k) == IF k = 0 THEN \hff10 ELSE IF k = 1 THEN \hff13 ELSE \hff14

SweepValues(k) == IF k = 0 THEN SweepNr10 ELSE IF k = 1 THEN SweepNr13 ELSE SweepNr14

\* impl Memory for Apu: set
SweepWrite ==
    \E v \in SweepValues(fed) :
        /\ fed < 3
        /\ apu' = ApuSet(apu, SweepAddr(fed), v)
        /\ last' = [op |-> "set", a |-> SweepAddr(fed), v |-> v, r |-> 0]
        /\ pre' = apu
        /\ fed' = fed + 1
        /\ UNCHANGED <<mmu, cpu, host>>

\* impl Memory for Apu: get of 0xff26
SweepRead ==
    /\ fed = 3
    /\ last.op = "set"
    /\ last' = [last EXCEPT !.op = "get", !.r = ApuGet(apu, \hff26)]
    /\ UNCHANGED <<mmu, cpu, apu, host, pre, fed>>

SweepNext == SweepWrite \/ SweepRead

SpecSweep == SweepInit /\ [][SweepNext]_vars

\* The frequency the trigger write leaves in NR13 and NR14
SweepF == GetFrequency(apu.channel1.reg)

\* The channel was triggered with shift > 0 and negate clear
SweepUp ==
    /\ fed = 3
    /\ GetShift(apu.channel1.reg) > 0
    /\ ~GetNegate(apu.channel1.reg)

\* C17: after the trigger write to NR14 with sweep shift > 0 and negate
\* clear, bit 0 of NR52 reads 0 when F + (F >> shift) >= 2048 and 1 when it
\* is below 2048, and the trigger leaves the frequency in NR13 and NR14 as
\* written.
C17_SweepOverflow ==
    /\ SweepUp =>
          /\ GetTrigger(apu.channel1.reg) <=>
                SweepF + SweepF \div 2 ^ GetShift(apu.channel1.reg) < 2048
          /\ apu.channel1.reg.nrx3 = pre.channel1.reg.nrx3
          /\ BitAnd(apu.channel1.reg.nrx4, \h07) = BitAnd(last.v, \h07)
    /\ (SweepUp /\ last.op = "get") =>
          Bit(last.r, 0) =
              IF SweepF + SweepF \div 2 ^ GetShift(apu.channel1.reg) < 2048
              THEN 1 ELSE 0

\* C17, the witness: NR52 read after a trigger that overflowed
C17_Witness ==
    /\ SweepUp
    /\ last.op = "get"
    /\ SweepF + SweepF \div 2 ^ GetShift(apu.channel1.reg) >= 2048
    /\ Bit(last.r, 0) = 0

---------------------------------------------------------------------------
(* SpecLfsr: the noise channel of a powered APU with NR43 written (width   *)
(* mode clear or set) and triggered, so that the LFSR holds its reload     *)
(* value; Lfsr::next then clocks it.  fed counts the clocks.               *)

\* Clocks in one run of the 15-bit register: one period and the start of
\* the next
MaxLfsrClocks == 32800

\* Clocks in one run of the 7-bit register: three periods
MaxNarrowClocks == 400

\* NR43 with the width bit clear and set
LfsrNr43 == {\h00, \h08}

LfsrInit ==
    /\ mmu = MmuPowerUp(FixtureCart)
    /\ cpu = CpuPowerUp
    /\ \E v \in LfsrNr43 :
          apu = ApuSet(ApuSet(ApuSet(ApuSet(ApuPowerUp(SampleRate), \hff26, \h80),
                                     \hff21, \hf0), \hff22, v), \hff23, \h80)
    /\ host = HostPowerUp
    /\ last = PowerUp
    /\ pre = 0
    /\ fed = 0

\* Lfsr::next
LfsrClock ==
    \E x \in {LfsrNext(apu.channel4.lfsr, GetWidthModeOfLfsr(apu.channel4.reg))} :
        /\ fed < (IF GetWidthModeOfLfsr(apu.channel4.reg) THEN MaxNarrowClocks
                  ELSE MaxLfsrClocks)
        /\ apu' = [apu EXCEPT !.channel4.lfsr = x.n]
        /\ last' = [op |-> "lfsr", a |-> 0, v |-> 0, r |-> x.out]
        /\ pre' = apu.channel4.lfsr
        /\ fed' = fed + 1
        /\ UNCHANGED <<mmu, cpu, host>>

LfsrSpecNext == LfsrClock

SpecLfsr == LfsrInit /\ [][LfsrSpecNext]_vars

\* The number of bits that feed back: 7 in width mode, 15 otherwise
FeedbackBits == IF GetWidthModeOfLfsr(apu.channel4.reg) THEN 7 ELSE 15

\* The bits of the register that feed back
Feedback(n) == n % 2 ^ FeedbackBits

RECURSIVE NextOutputs(_, _, _)
\* The bits the next k clocks return from register n, first bit highest
NextOutputs(n, width, k) ==
    IF k = 0 THEN 0
    ELSE LET x == LfsrNext(n, width)
         IN  x.out * 2 ^ (k - 1) + NextOutputs(x.n, width, k - 1)

\* C18: from the reload state, the bits that feed back are never all zero
\* and return to their reload value exactly every 127 clocks in width mode
\* and every 32767 clocks otherwise; the bits returned by the following
\* clocks are these bits, highest first, so the output sequence repeats
\* with that least period.
C18_LfsrPeriod ==
    /\ Feedback(apu.channel4.lfsr) # 0
    /\ Feedback(apu.channel4.lfsr) = 1 <=> fed % (2 ^ FeedbackBits - 1) = 0
    /\ NextOutputs(apu.channel4.lfsr, GetWidthModeOfLfsr(apu.channel4.reg),
                   FeedbackBits)
           = Feedback(apu.channel4.lfsr)
    /\ last.op = "lfsr" => last.r = Bit(pre, FeedbackBits - 1)

\* C18, the witness: the 15-bit register back at its reload value after
\* 32767 clocks
C18_Witness ==
    /\ ~GetWidthModeOfLfsr(apu.channel4.reg)
    /\ fed = 32767
    /\ Feedback(apu.channel4.lfsr) = 1

\* The 7-bit register back at its reload value after 127 clocks
LfsrNarrowReturn ==
    /\ GetWidthModeOfLfsr(apu.channel4.reg)
    /\ fed = 127
    /\ Feedback(apu.channel4.lfsr) = 1

---------------------------------------------------------------------------
(* SpecAudio: the emulator thread in Apu::play and the audio thread in the *)
(* callback of cpal_thread, sharing the sample queue behind its mutex.     *)
(* Each step is one thread's acquisition of the mutex, one pass of its     *)
(* loop, or its release.  Pair k produced is <<2k - 1, 2k>>.               *)

\* Pairs in one call of Apu::play
MaxBatch == 4

\* Pairs produced in one run
MaxProduced == 6

\* Samples in the device buffer of one callback
MaxOut == 4

\* The k pairs that follow the first done pairs
NewPairs(done, k) == [j \in 1..k |-> <<2 * (done + j) - 1, 2 * (done + j)>>]

AudioInit ==
    /\ mmu = MmuPowerUp(FixtureCart)
    /\ cpu = CpuPowerUp
    /\ apu = ApuPowerUp(SampleRate)
    /\ host = HostPowerUp
    /\ last = PowerUp
    /\ pre = 0
    /\ fed = 0

\* Apu::mix calls Apu::play with k pairs
PlayCall ==
    \E k \in 0..MaxBatch :
        /\ host.emu = "idle"
        /\ Len(host.produced) + k <= MaxProduced
        /\ host' = [host EXCEPT !.emu = "lock",
                                !.batch = NewPairs(Len(host.produced), k),
                                !.i = 1,
                                !.produced = @ \o NewPairs(Len(host.produced), k)]
        /\ last' = [op |-> "play", a |-> 0, v |-> k, r |-> 0]
        /\ UNCHANGED <<mmu, cpu, apu, pre, fed>>

\* Apu::play, "self.buffer.lock().unwrap()"
PlayLock ==
    /\ host.emu = "lock"
    /\ host.lock = "free"
    /\ host' = [host EXCEPT !.emu = "loop", !.lock = "emu"]
    /\ last' = [op |-> "play_lock", a |-> 0, v |-> 0, r |-> 0]
    /\ UNCHANGED <<mmu, cpu, apu, pre, fed>>

\* Apu::play, one pass of the loop that pushes
PlayPush ==
    /\ host.emu = "loop"
    /\ host.i <= Len(host.batch)
    /\ ~PlayFull(apu.buffer, apu.sample_rate)
    /\ apu' = [apu EXCEPT !.buffer = Append(@, host.batch[host.i])]
    /\ host' = [host EXCEPT !.i = @ + 1, !.accepted = Append(@, host.batch[host.i])]
    /\ last' = [op |-> "push", a |-> 0, v |-> 0, r |-> 0]
    /\ UNCHANGED <<mmu, cpu, pre, fed>>

\* Apu::play, the return (at the end of the slices or from the loop) and
\* the release of the mutex
PlayReturn ==
    /\ host.emu = "loop"
    /\ host.i > Len(host.batch) \/ PlayFull(apu.buffer, apu.sample_rate)
    /\ host' = [host EXCEPT !.emu = "idle", !.lock = "free"]
    /\ last' = [op |-> "play_return", a |-> 0, v |-> Len(host.batch) - host.i + 1,
                r |-> 0]
    /\ UNCHANGED <<mmu, cpu, apu, pre, fed>>

\* cpal_thread, the callback with a device buffer of n samples:
\* "audio_buffer.lock().unwrap()"
AudioLock ==
    \E n \in 0..MaxOut :
        /\ host.audio = "idle"
        /\ host.lock = "free"
        /\ host' = [host EXCEPT !.audio = "locked", !.lock = "audio", !.n = n]
        /\ last' = [op |-> "audio_lock", a |-> 0, v |-> n, r |-> 0]
        /\ UNCHANGED <<mmu, cpu, apu, pre, fed>>

\* cpal_thread, "inbuffer.drain(..outlen)" and the stores in the device
\* buffer
AudioDrain ==
    \E outlen \in {OutLen(host.n, apu.buffer)} :
        /\ host.audio = "locked"
        /\ apu' = [apu EXCEPT !.buffer = SubSeq(@, outlen + 1, Len(@))]
        /\ host' = [host EXCEPT !.audio = "done",
                                !.delivered = @ \o Output(SubSeq(apu.buffer, 1, outlen))]
        /\ last' = [op |-> "drain", a |-> 0, v |-> host.n, r |-> outlen]
        /\ UNCHANGED <<mmu, cpu, pre, fed>>

\* cpal_thread, the end of the callback: the mutex is released
AudioUnlock ==
    /\ host.audio = "done"
    /\ host' = [host EXCEPT !.audio = "idle", !.lock = "free"]
    /\ last' = [op |-> "audio_unlock", a |-> 0, v |-> 0, r |-> 0]
    /\ UNCHANGED <<mmu, cpu, apu, pre, fed>>

AudioNext ==
    PlayCall \/ PlayLock \/ PlayPush \/ PlayReturn \/ AudioLock \/ AudioDrain
    \/ AudioUnlock

SpecAudio == AudioInit /\ [][AudioNext]_vars

\* C19 (as stated): the queue never holds more than sample_rate pairs, and
\* the emulator thread inside the loop of Apu::play can always take its
\* next step (push, or return dropping the rest) whatever the audio thread
\* does.
C19_QueueBound ==
    /\ Len(apu.buffer) <= apu.sample_rate
    /\ host.emu = "loop" => ENABLED (PlayPush \/ PlayReturn)

\* The bound Apu::play keeps
QueueBoundPlusOne ==
    /\ Len(apu.buffer) <= apu.sample_rate + 1
    /\ host.emu = "loop" => ENABLED (PlayPush \/ PlayReturn)

RECURSIVE IsSubSeq(_, _)
\* a is an order-preserving subsequence of b
IsSubSeq(a, b) ==
    IF a = << >> THEN TRUE
    ELSE IF b = << >> THEN FALSE
    ELSE IF Head(a) = Head(b) THEN IsSubSeq(Tail(a), Tail(b))
    ELSE IsSubSeq(a, Tail(b))

RECURSIVE Flat(_)
\* The samples of a sequence of pairs, L before R
Flat(pairs) ==
    IF pairs = << >> THEN << >>
    ELSE <<Head(pairs)[1], Head(pairs)[2]>> \o Flat(Tail(pairs))

\* C20: the pairs pushed are an order-preserving subsequence of the pairs
\* produced; the samples delivered to the device, followed by the pairs
\* still queued, are the pairs pushed, in their order, each once, L before
\* its R.
C20_Fifo ==
    /\ IsSubSeq(host.accepted, host.produced)
    /\ host.delivered \o Flat(apu.buffer) = Flat(host.accepted)

\* C20, the witness: pairs were delivered in more than one callback after
\* a pair had been dropped, and pairs are still queued
C20_Witness ==
    /\ Len(host.delivered) >= 6
    /\ last.op = "drain"
    /\ last.r = 1
    /\ Len(host.accepted) < Len(host.produced)
    /\ Len(apu.buffer) > 0

\* C21 (as stated): a CPU step that begins with IF & IE & 0x1F = 0
\* dispatches nothing and leaves a halted CPU halted, whatever bits 5-7 of
\* IF and IE hold, and a dispatch only ever sets PC to 0x40, 0x48, 0x50,
\* 0x58 or 0x60.
C21_DispatchMask ==
    /\ (last.op \in {"dispatch", "halted", "ex"} /\ BitAnd(PendingBefore, \h1f) = 0) =>
          /\ last.op # "dispatch"
          /\ pre.cpu.halted => cpu.halted
    /\ last.op = "dispatch" => cpu.reg.pc \in {\h40, \h48, \h50, \h58, \h60}

\* IF & IE had no bit above bit 4 before the last step
MaskedPending == BitAnd(PendingBefore, \h1f) = PendingBefore

\* The statement of C21 in the steps whose IF & IE has no bit above bit 4
DispatchMaskedOnly == MaskedPending => C21_DispatchMask
\* The CPU and the bus before the last step, with the halted flag cleared
Woken == [pre EXCEPT !.cpu.halted = FALSE]

\* The last step began with master-enable clear and one of bits 0-4 of
\* IF & IE set
PendingMasked ==
    /\ last.op \in {"dispatch", "halted", "ex"}
    /\ ~pre.cpu.enable_interrupts
    /\ BitAnd(PendingBefore, \h1f) # 0

\* C22: a CPU step that begins with one of bits 0-4 of IF & IE set and
\* master-enable clear dispatches nothing: it does what the instruction at
\* PC does from the state with the halted flag cleared and returns that
\* instruction's clocks, IF and IE are as before, and a CPU that was
\* halted (at the EI that follows HALT) is running, PC past the
\* instruction, SP and memory unchanged.
C22_WakeWithoutDispatch ==
    PendingMasked =>
        /\ last.op = "ex"
        /\ [cpu |-> cpu, mmu |-> mmu] = Ex(Woken).st
        /\ last.r = 4 * Ex(Woken).c
        /\ mmu.interrupt = pre.mmu.interrupt
        /\ mmu.enable_interrupts = pre.mmu.enable_interrupts
        /\ cpu.reg.pc \notin {\h40, \h48, \h50, \h58, \h60}
        /\ pre.cpu.halted =>
               /\ ~cpu.halted
               /\ cpu.reg.pc = pre.cpu.reg.pc + 1
               /\ cpu.reg.sp = pre.cpu.reg.sp
               /\ mmu = pre.mmu

\* C22 witness: a halted CPU with master-enable clear is woken by the
\* joypad interrupt the key press raised and goes on with the EI at 0x0103
C22_Witness ==
    /\ PendingMasked /\ pre.cpu.halted
    /\ Bit(PendingBefore, FlagJoypad) = 1
    /\ last.op = "ex" /\ last.a = \h0103 /\ cpu.reg.pc = \h0104

\* C23 (as stated): with the LCD on, after every PPU step the STAT mode is
\* 1 exactly when LY is in 144..153, and on the other lines 2 for dots
\* 0-79, 3 for dots 80-251 and 0 for dots 252-455; dots stays in 0..455
\* and LY in 0..153.
C23_ModeByPosition ==
    (last.op = "gpu" /\ LcdcBit7(mmu.gpu)) =>
        /\ mmu.gpu.dots \in 0..455
        /\ mmu.gpu.ly \in 0..153
        /\ mmu.gpu.mode = 1 <=> mmu.gpu.ly \in 144..153
        /\ mmu.gpu.ly < 144 =>
               mmu.gpu.mode = (IF mmu.gpu.dots <= 79 THEN 2
                               ELSE IF mmu.gpu.dots <= 251 THEN 3 ELSE 0)

\* The mode by position with the comparisons of Gpu::next: dots 80 is
\* still mode 2 and dots 252 still mode 3
GpuModeAsCompared ==
    (last.op = "gpu" /\ LcdcBit7(mmu.gpu)) =>
        /\ mmu.gpu.dots \in 0..455
        /\ mmu.gpu.ly \in 0..153
        /\ mmu.gpu.mode = 1 <=> mmu.gpu.ly \in 144..153
        /\ mmu.gpu.ly < 144 =>
               mmu.gpu.mode = (IF mmu.gpu.dots <= 80 THEN 2
                               ELSE IF mmu.gpu.dots <= 252 THEN 3 ELSE 0)

\* The clocks a step of SpecGpu hands to Gpu::next: what the step adds to
\* the clocks fed
GpuClocks == (fed' + FrameDots - fed) % FrameDots

\* The dots a step of SpecGpu moves the PPU by
GpuAdvance == (GpuPosition(mmu'.gpu) + FrameDots - GpuPosition(mmu.gpu)) % FrameDots

\* C24 (as stated): a PPU step with c > 0 clocks and the LCD on advances
\* LY*456 + dots by exactly c modulo 70224, for every c including the
\* multiples of 80 and the values above 80.
C24_AdvanceByClocks ==
    [][(GpuStep /\ LcdcBit7(mmu.gpu)) => GpuAdvance = GpuClocks]_vars

\* The steps whose clocks are not a multiple of 80 advance the PPU by
\* their clocks, 88 = 80 + 8 included
GpuAdvanceOffEighty ==
    [][(GpuStep /\ LcdcBit7(mmu.gpu) /\ GpuClocks % 80 # 0) =>
           GpuAdvance = GpuClocks]_vars

\* A step of 80 clocks leaves the PPU where it was
GpuEightyLost ==
    [][(GpuStep /\ LcdcBit7(mmu.gpu) /\ GpuClocks = 80) => GpuAdvance = 0]_vars

---------------------------------------------------------------------------
(* SpecHdma: the VRAM DMA engine on the ROM-only fixture.  The machine     *)
(* runs from power-up in steps of MemoryManagementUnit::do_cycle(96) (a    *)
(* six-machine-cycle instruction through MotherBoard::do_cycle).  On one   *)
(* of HdmaLines the program selects the VRAM bank and writes 0xFF51 to     *)
(* 0xFF55; afterwards it may write 0xFF55 again while the H-blank          *)
(* transfer is active and may switch the LCD off and on.  last.a is the    *)
(* value written to 0xFF55 (-1 before), last.v the blocks copied since     *)
(* then, last.r whether the latest step took the PPU into H-blank; fed     *)
(* counts the steps since the program's writes; pre is the bus before the  *)
(* last operation, with the clocks that operation handed to the PPU        *)
(* (ticks), whether the step before it entered H-blank (owed), whether     *)
(* 0xFF55 was written with bit 7 clear during the transfer (stopped) and   *)
(* whether LCDC was written (lcdc).                                        *)

\* The clocks of a step
HdmaTicks == {96}

\* Steps followed after the program's writes
MaxHdmaSteps == 14

\* The latest step after which 0xFF55 or LCDC is written again
MaxWriteAt == 6

\* The last line on which the program writes the registers; the machine
\* is not followed past it unless the registers were written
LastArmLine == 143

\* Where the PPU is when the program writes the registers
HdmaLines == {0, LastArmLine}

HdmaArmDots == 0..95

\* The values written to 0xFF55: one or two blocks, bit 7 clear and set
HdmaLengths == {\h00, \h01, \h80, \h81}

\* The values written to 0xFF51, 0xFF52 (source 0x4000, in ROM)
HdmaSrcBytes == <<\h40, \h0f>>

\* The values written to 0xFF53, 0xFF54: the first and the last block of
\* VRAM, with the bits set that the registers ignore
HdmaDstBytes == {<<\h00, \h00>>, <<\hff, \hff>>}

\* The values written to 0xFF4F
HdmaBanks == {\h00, \h01}

\* The values written again to 0xFF55 while the transfer is active
HdmaAgain == {\h00, \h05, \h85}

HdmaInit ==
    /\ mmu = MmuPowerUp(FixtureCart)
    /\ cpu = CpuPowerUp
    /\ last = [op |-> "power_up", a |-> 0 - 1, v |-> 0, r |-> FALSE]
    /\ pre = [mmu |-> MmuPowerUp(FixtureCart), ticks |-> 0, owed |-> FALSE,
              stopped |-> FALSE, lcdc |-> FALSE]
    /\ apu = ApuPowerUp(SampleRate)
    /\ host = HostPowerUp
    /\ fed = 0

\* The program has written 0xFF55
Armed == last.a # 0 - 1

\* Whether a step from PPU state g0 to g1 passed from before H-blank into
\* H-blank on a visible line (H-blank is past dot 252, the step is shorter
\* than the rest of the line)
HBlankEntered(g0, g1) ==
    /\ LcdcBit7(g0) /\ g0.ly < 144 /\ g0.dots <= 252
    /\ g1.ly # g0.ly \/ g1.dots > 252

\* The 16-byte blocks the engine moved between bus states m0 and m1
BlocksMoved(m0, m1) == (m1.hdma.dst - m0.hdma.dst) \div 16

\* MemoryManagementUnit::do_cycle
HdmaStep ==
    \E t \in HdmaTicks : \E d \in {MmuDoCycle(mmu, t)} :
        /\ ~Faulted(mmu)
        /\ IF Armed THEN fed < MaxHdmaSteps ELSE mmu.gpu.ly <= LastArmLine
        /\ mmu' = d.mmu
        /\ last' = [last EXCEPT !.op = "step",
                                !.v = @ + BlocksMoved(mmu, d.mmu),
                                !.r = HBlankEntered(mmu.gpu, d.mmu.gpu)]
        /\ pre' = [pre EXCEPT !.mmu = mmu, !.ticks = d.gputicks, !.owed = last.r]
        /\ fed' = IF Armed THEN fed + 1 ELSE 0
        /\ UNCHANGED <<cpu, apu, host>>

\* The program's writes of 0xFF4F and 0xFF51..0xFF55
HdmaArm ==
    \E n \in HdmaLengths, dst \in HdmaDstBytes, b \in HdmaBanks :
        /\ ~Faulted(mmu)
        /\ ~Armed
        /\ mmu.gpu.ly \in HdmaLines /\ mmu.gpu.dots \in HdmaArmDots
        /\ mmu' = MmuWriteAll(mmu, << <<\hff4f, b>>,
                                      <<\hff51, HdmaSrcBytes[1]>>,
                                      <<\hff52, HdmaSrcBytes[2]>>,
                                      <<\hff53, dst[1]>>, <<\hff54, dst[2]>>,
                                      <<\hff55, n>> >>, 1)
        /\ last' = [last EXCEPT !.op = "arm", !.a = n, !.v = 0]
        /\ pre' = [pre EXCEPT !.mmu = mmu, !.ticks = 0]
        /\ fed' = 0
        /\ UNCHANGED <<cpu, apu, host>>

\* A write of 0xFF55 while the H-blank transfer is active
HdmaWriteAgain ==
    \E v \in HdmaAgain :
        /\ ~Faulted(mmu)
        /\ Armed /\ fed <= MaxWriteAt
        /\ mmu.hdma.active /\ mmu.hdma.mode = "Hdma"
        /\ last.op # "again"
        /\ mmu' = MmuSet(mmu, \hff55, v)
        /\ last' = [last EXCEPT !.op = IF BitAnd(v, \h80) = 0 THEN "stop" ELSE "again"]
        /\ pre' = [pre EXCEPT !.mmu = mmu, !.ticks = 0,
                              !.stopped = BitAnd(v, \h80) = 0]
        /\ UNCHANGED <<cpu, apu, host, fed>>

\* A write of LCDC that switches the LCD off, or on again
HdmaLcdc ==
    \E v \in {\h11, \h91} :
        /\ ~Faulted(mmu)
        /\ Armed /\ fed <= MaxWriteAt
        /\ v # mmu.gpu.lcdc
        /\ mmu' = MmuSet(mmu, \hff40, v)
        /\ last' = [last EXCEPT !.op = "lcdc"]
        /\ pre' = [pre EXCEPT !.mmu = mmu, !.ticks = 0, !.lcdc = TRUE]
        /\ UNCHANGED <<cpu, apu, host, fed>>

HdmaNext == HdmaStep \/ HdmaArm \/ HdmaWriteAgain \/ HdmaLcdc

SpecHdma == HdmaInit /\ [][HdmaNext]_vars

\* The byte of VRAM bank `bank` at offset i of the bank
VramByte(m, bank, i) == MemGet(m.gpu.ram, bank * \h2000 + i)

\* The count bytes from address src of the bus m0 are in VRAM of m1, in the
\* bank m0 has selected, from address dst on
Copied(m0, m1, src, dst, count) ==
    \A k \in 0..(count - 1) :
        /\ dst + k \in \h8000..\h9fff
        /\ VramByte(m1, m0.gpu.ram_bank, dst + k - \h8000) = MmuGet(m0, src + k)

\* The block count written to 0xFF55
ArmedCount == BitAnd(last.a, \h7f)

\* The last operation was a step that began with the H-blank transfer
\* active and did not stop the machine
HdmaStepped ==
    /\ last.op = "step" /\ ~Faulted(mmu)
    /\ pre.mmu.hdma.active /\ pre.mmu.hdma.mode = "Hdma"

\* What C25 says of a step that began with the H-blank transfer active
HdmaStepRule ==
    /\ BlocksMoved(pre.mmu, mmu) =
           (IF pre.owed /\ LcdcBit7(pre.mmu.gpu) /\ pre.mmu.gpu.ly < 144
            THEN 1 ELSE 0)
    /\ BlocksMoved(pre.mmu, mmu) = 1 =>
           /\ Copied(pre.mmu, mmu, pre.mmu.hdma.src, pre.mmu.hdma.dst, 16)
           /\ mmu.hdma.src = pre.mmu.hdma.src + 16
           /\ mmu.hdma.remain =
                  (IF pre.mmu.hdma.remain = 0 THEN \h7f ELSE pre.mmu.hdma.remain - 1)
    /\ BlocksMoved(pre.mmu, mmu) = 0 =>
           /\ mmu.hdma = pre.mmu.hdma
           /\ mmu.gpu.ram = pre.mmu.gpu.ram
    /\ mmu.hdma.active <=> last.v < ArmedCount + 1
    /\ mmu.hdma.remain = (IF mmu.hdma.active THEN ArmedCount - last.v ELSE \h7f)

\* C25 (as stated): an H-blank transfer armed by writing N with bit 7 set
\* to 0xFF55 copies one 16-byte block in the step after each entry of the
\* PPU into H-blank and none in any other step (none while LY >= 144, none
\* while the LCD is off), decrements remain with each block, and becomes
\* inactive exactly after N+1 blocks, when remain wraps from 0 to 0x7F.
C25_HdmaPerHBlank == HdmaStepped => HdmaStepRule

\* The statement of C25 in the runs that leave LCDC alone
HdmaLcdLeftOn == (HdmaStepped /\ ~pre.lcdc) => HdmaStepRule

\* With the LCD off a block is copied in a step that no H-blank preceded
HdmaCopiesLcdOff ==
    /\ HdmaStepped /\ ~LcdcBit7(pre.mmu.gpu) /\ ~pre.owed
    /\ BlocksMoved(pre.mmu, mmu) = 1

\* C26: a write to 0xFF55 with bit 7 clear while the H-blank transfer is
\* active stops it: the engine is inactive without becoming a GDMA, src,
\* dst and remain keep their values, 0xFF55 reads remain with bit 7 set,
\* and the steps that follow copy nothing, move no register and add no
\* stall, H-blank or not; a write with bit 7 set while the transfer is
\* active changes nothing.
C26_StopWrite ==
    /\ last.op = "stop" =>
           /\ ~mmu.hdma.active /\ mmu.hdma.mode = "Hdma"
           /\ mmu.hdma.src = pre.mmu.hdma.src
           /\ mmu.hdma.dst = pre.mmu.hdma.dst
           /\ mmu.hdma.remain = pre.mmu.hdma.remain
           /\ MmuGet(mmu, \hff55) = BitOr(pre.mmu.hdma.remain, \h80)
           /\ mmu.gpu = pre.mmu.gpu
    /\ (last.op = "step" /\ pre.stopped) =>
           /\ mmu.hdma = pre.mmu.hdma
           /\ mmu.gpu.ram = pre.mmu.gpu.ram
           /\ pre.ticks \in HdmaTicks
           /\ MmuGet(mmu, \hff55) = BitOr(ArmedCount - last.v, \h80)
    /\ last.op = "again" => mmu = pre.mmu /\ mmu.hdma.active

\* C26 witness: two blocks were armed, one was copied, the transfer was
\* stopped, and the step after the next H-blank entry copied nothing
C26_Witness ==
    /\ last.op = "step" /\ pre.stopped
    /\ pre.owed /\ LcdcBit7(pre.mmu.gpu)
    /\ last.a = \h81 /\ last.v = 1
    /\ MmuGet(mmu, \hff55) = \h80

\* The last operation was the step that found the GDMA armed
GdmaStepped ==
    /\ last.op = "step"
    /\ pre.mmu.hdma.active /\ pre.mmu.hdma.mode = "Gdma"

\* What C27 says of the step that finds a GDMA of last.a + 1 blocks armed
GdmaStepRule ==
    /\ ~Faulted(mmu)
    /\ Copied(pre.mmu, mmu, pre.mmu.hdma.src, pre.mmu.hdma.dst, (last.a + 1) * 16)
    /\ \E t \in HdmaTicks : pre.ticks = t + (last.a + 1) * 8
    /\ ~mmu.hdma.active
    /\ MmuGet(mmu, \hff55) = \hff

\* C27 (as stated): after a write of L (bit 7 clear) to 0xFF55 with no
\* H-blank transfer active, the next MMU step copies (L+1)*16 bytes from
\* src on, read through the bus, to dst on in the selected VRAM bank,
\* hands the PPU (L+1)*8 clocks more, and leaves the engine inactive with
\* 0xFF55 reading 0xFF.
C27_Gdma == GdmaStepped => GdmaStepRule

\* The statement of C27 for the transfers that end inside VRAM
GdmaInsideVram ==
    (GdmaStepped /\ pre.mmu.hdma.dst + (last.a + 1) * 16 <= \ha000) => GdmaStepRule

\* A GDMA of two blocks into the last block of VRAM stops the machine
GdmaPastVram ==
    /\ GdmaStepped /\ last.a = \h01 /\ pre.mmu.hdma.dst = \h9ff0
    /\ Faulted(mmu)

\* C28 (as stated): in every state the source of the engine has its low 4
\* bits clear, the destination is a multiple of 16 in 0x8000..0x9FF0 and
\* remain is in 0..0x7F.
C28_HdmaRanges ==
    /\ mmu.hdma.src % 16 = 0
    /\ mmu.hdma.dst % 16 = 0
    /\ mmu.hdma.dst \in \h8000..\h9ff0
    /\ mmu.hdma.remain \in 0..\h7f

\* What is left of C28: the destination may be one block past VRAM
HdmaRangesPast ==
    /\ mmu.hdma.src % 16 = 0
    /\ mmu.hdma.dst % 16 = 0
    /\ mmu.hdma.dst \in \h8000..\ha000
    /\ mmu.hdma.remain \in 0..\h7f

---------------------------------------------------------------------------
(* SpecLcd: the LCD switched off and on.  After power-up the program       *)
(* enables the four STAT interrupt sources and sets LYC; the PPU then runs *)
(* in steps of 96 clocks through the frame, and anywhere in it the program *)
(* may clear bit 7 of LCDC, let the PPU step with the LCD off, and set the *)
(* bit again.  last.a is LY and last.v the STAT mode when LCDC was last    *)
(* written, last.r the interrupt bits the last step raised, fed the steps  *)
(* taken since the LCD went off; pre is the bus before the last operation. *)

\* Steps followed with the LCD off
MaxOffSteps == 3

\* The clocks of a step
LcdTicks == {96}

\* The values written to LYC
LcdLyc == {0, 1, 144}

\* The values written to LCDC with bit 7 clear
LcdOffValues == {\h00, \h11, \h7f}

LcdInit ==
    /\ \E lyc \in LcdLyc :
           mmu = MmuWriteAll(MmuPowerUp(FixtureCart),
                             << <<\hff41, \h78>>, <<\hff45, lyc>> >>, 1)
    /\ cpu = CpuPowerUp
    /\ last = [op |-> "power_up", a |-> 0, v |-> 0, r |-> 0]
    /\ pre = [mmu |-> MmuPowerUp(FixtureCart)]
    /\ apu = ApuPowerUp(SampleRate)
    /\ host = HostPowerUp
    /\ fed = 0

\* MemoryManagementUnit::do_cycle, the PPU's part, with the LCD on or off
LcdStep ==
    \E t \in LcdTicks : \E g \in {GpuNext(mmu.gpu, GpuTicks(t, mmu.speed, 0))} :
        /\ ~LcdcBit7(mmu.gpu) => fed < MaxOffSteps
        /\ mmu' = [mmu EXCEPT !.gpu = g.gpu, !.interrupt = BitOr(@, g.interrupt)]
        /\ last' = [last EXCEPT !.op = "step", !.r = g.interrupt]
        /\ pre' = [mmu |-> mmu]
        /\ fed' = IF LcdcBit7(mmu.gpu) THEN 0 ELSE fed + 1
        /\ UNCHANGED <<cpu, apu, host>>

\* A write of LCDC with bit 7 clear while the LCD is on
LcdOff ==
    \E v \in LcdOffValues :
        /\ LcdcBit7(mmu.gpu)
        /\ mmu' = MmuSet(mmu, \hff40, v)
        /\ last' = [op |-> "off", a |-> mmu.gpu.ly, v |-> mmu.gpu.mode, r |-> 0]
        /\ pre' = [mmu |-> mmu]
        /\ fed' = 0
        /\ UNCHANGED <<cpu, apu, host>>

\* A write of LCDC with bit 7 set while the LCD is off; the program clears
\* IF as well
LcdOn ==
    /\ ~LcdcBit7(mmu.gpu)
    /\ mmu' = MmuWriteAll(mmu, << <<\hff40, \h91>>, <<\hff0f, \h00>> >>, 1)
    /\ last' = [op |-> "on", a |-> mmu.gpu.ly, v |-> mmu.gpu.mode, r |-> 0]
    /\ pre' = [mmu |-> mmu]
    /\ fed' = 0
    /\ UNCHANGED <<cpu, apu, host>>

LcdNext == LcdStep \/ LcdOff \/ LcdOn

SpecLcd == LcdInit /\ [][LcdNext]_vars

\* C29: a write of LCDC with bit 7 clear sets dots and LY to 0, the STAT
\* mode to 0 and the frame buffer to white; every PPU step taken while the
\* bit is clear leaves LY, dots and the mode at 0, the frame buffer white
\* and IF as it was, raising neither VBlank nor LCDStat.
C29_LcdOff ==
    /\ last.op = "off" =>
           /\ mmu.gpu.dots = 0 /\ mmu.gpu.ly = 0 /\ mmu.gpu.mode = 0
           /\ mmu.gpu.data = "white"
           /\ MmuGet(mmu, \hff44) = 0
           /\ BitAnd(MmuGet(mmu, \hff41), \h03) = 0
           /\ mmu.interrupt = pre.mmu.interrupt
    /\ (last.op = "step" /\ ~LcdcBit7(pre.mmu.gpu)) =>
           /\ mmu.gpu.dots = 0 /\ mmu.gpu.ly = 0 /\ mmu.gpu.mode = 0
           /\ mmu.gpu.data = "white"
           /\ last.r = 0
           /\ mmu.interrupt = pre.mmu.interrupt

\* C29 witness: the LCD went off on a line of the vertical blank, after
\* scanlines had been rendered, with LYC = 0 and the STAT sources enabled,
\* and the PPU has stepped MaxOffSteps times since
C29_Witness ==
    /\ last.op = "step" /\ ~LcdcBit7(mmu.gpu) /\ fed = MaxOffSteps
    /\ last.a >= 144 /\ last.v = 1
    /\ mmu.gpu.lc = 0 /\ mmu.gpu.enable_ly_interrupt /\ mmu.gpu.enable_m2_interrupt
    /\ mmu.gpu.ly = 0 /\ mmu.gpu.data = "white"

---------------------------------------------------------------------------
(* SpecBoot: the bus right after MemoryManagementUnit::power_up, read at   *)
(* the registers the constructor writes and at the APU's addresses.        *)
(* last.a is the address read, last.r the byte returned, last.v the byte   *)
(* the constructor wrote there last (-1 where it wrote none); fed counts   *)
(* the reads.                                                              *)

\* Reads in one run
MaxBootReads == 2

\* The addresses the constructor writes, and the APU's
BootAddrs == {PowerUpWrites[i][1] : i \in 1..Len(PowerUpWrites)} \cup (\hff10..\hff3f)

\* The byte the constructor writes last to address a
BootWritten(a) ==
    IF \E i \in 1..Len(PowerUpWrites) : PowerUpWrites[i][1] = a
    THEN LET i == CHOOSE i \in 1..Len(PowerUpWrites) :
                      /\ PowerUpWrites[i][1] = a
                      /\ \A j \in (i + 1)..Len(PowerUpWrites) : PowerUpWrites[j][1] # a
         IN  PowerUpWrites[i][2]
    ELSE Fault

BootInit ==
    /\ \E c \in BusCarts : mmu = MmuPowerUp(c)
    /\ cpu = CpuPowerUp
    /\ last = PowerUp
    /\ pre = 0
    /\ apu = ApuPowerUp(SampleRate)
    /\ host = HostPowerUp
    /\ fed = 0

\* MemoryManagementUnit::get
BootRead ==
    \E a \in BootAddrs :
        /\ fed < MaxBootReads
        /\ last' = [op |-> "get", a |-> a, v |-> BootWritten(a), r |-> MmuGet(mmu, a)]
        /\ fed' = fed + 1
        /\ UNCHANGED <<mmu, cpu, apu, host, pre>>

BootNext == BootRead

SpecBoot == BootInit /\ [][BootNext]_vars

\* C30 (as stated): right after the construction of the MMU the registers
\* read the post-boot values the constructor wrote: NR50 = 0x77,
\* NR51 = 0xF3, NR52 with bit 7 set, LCDC = 0x91 and BGP = 0xFC.
C30_PostBoot ==
    last.op = "get" =>
        /\ last.a = \hff24 => last.r = \h77
        /\ last.a = \hff25 => last.r = \hf3
        /\ last.a = \hff26 => BitAnd(last.r, \h80) = \h80
        /\ last.a = \hff40 => last.r = \h91
        /\ last.a = \hff47 => last.r = \hfc

\* What the bus returns after construction: the written byte at the
\* registers of the timer and the PPU, 0x00 at every address of the APU
BootReadsBack ==
    last.op = "get" =>
        last.r = (IF last.a \in \hff10..\hff3f THEN \h00 ELSE last.v)

\* An Apu given the constructor's last three APU writes drops the first
\* two: NR52 comes last and the power bit gates the others
ApuDropsBootWrites ==
    \E p \in {ApuSet(ApuPowerUp(SampleRate), \hff24, \h77)} :
    \E q \in {ApuSet(p, \hff25, \hf3)} :
    \E r \in {ApuSet(q, \hff26, \hf1)} :
        /\ ApuGet(r, \hff24) = \h00
        /\ ApuGet(r, \hff25) = \h00
        /\ ApuGet(r, \hff26) = \hf0

---------------------------------------------------------------------------
(* SpecTac: the timer under writes of TAC.  From power-up with TMA and     *)
(* TIMA written, the bus writes TAC and the timer is fed clocks, in any    *)
(* order.  pre is the bus before the last operation, fed the number of     *)
(* operations.                                                             *)

\* Operations in one run
MaxTacOps == 4

\* The values written to TAC: every code of bits 1-0, with the enable bit
\* and with the unused bits
TacValues == {\h00, \h01, \h02, \h03, \h05, \h06, \h07, \hfc, \hfd}

\* The clocks of one step of the timer
TacFeeds == {12, 100, 260}

TacInit ==
    /\ \E tma \in {\h00, \hab} :
           mmu = MmuWriteAll(MmuPowerUp(FixtureCart),
                             << <<\hff06, tma>>, <<\hff05, \h10>> >>, 1)
    /\ cpu = CpuPowerUp
    /\ last = PowerUp
    /\ pre = MmuPowerUp(FixtureCart)
    /\ apu = ApuPowerUp(SampleRate)
    /\ host = HostPowerUp
    /\ fed = 0

\* MemoryManagementUnit::set of 0xff07
TacWrite ==
    \E v \in TacValues :
        /\ fed < MaxTacOps
        /\ mmu' = MmuSet(mmu, \hff07, v)
        /\ last' = [op |-> "tac", a |-> \hff07, v |-> v, r |-> 0]
        /\ pre' = mmu
        /\ fed' = fed + 1
        /\ UNCHANGED <<cpu, apu, host>>

\* MemoryManagementUnit::do_cycle, the timer's part
TacFeed ==
    \E n \in TacFeeds : \E d \in {TimerNext(mmu.timer, n)} :
        /\ fed < MaxTacOps
        /\ mmu' = [mmu EXCEPT !.timer = d.timer, !.interrupt = BitOr(@, d.interrupt)]
        /\ last' = [op |-> "next", a |-> 0, v |-> n, r |-> d.interrupt]
        /\ pre' = mmu
        /\ fed' = fed + 1
        /\ UNCHANGED <<cpu, apu, host>>

TacNext == TacWrite \/ TacFeed

SpecTac == TacInit /\ [][TacNext]_vars

\* The write of TAC changed bits 1-0
TacChanged == BitAnd(pre.timer.tac, \h03) # BitAnd(last.v, \h03)

\* C31: a write to TAC that changes bits 1-0 sets the TIMA accumulator to
\* 0, selects period 1024, 16, 64 or 256 for the codes 0, 1, 2, 3 and
\* loads TIMA from TMA; a write that keeps bits 1-0 leaves TIMA and the
\* accumulator as they were; no write of TAC changes DIV, its accumulator,
\* TMA or IF.
C31_TacWrite ==
    last.op = "tac" =>
        /\ TacChanged =>
               /\ mmu.timer.tma_clock.n = 0
               /\ mmu.timer.tma_clock.period =
                      <<1024, 16, 64, 256>>[BitAnd(last.v, \h03) + 1]
               /\ mmu.timer.tima = pre.timer.tma
        /\ ~TacChanged =>
               /\ mmu.timer.tima = pre.timer.tima
               /\ mmu.timer.tma_clock = pre.timer.tma_clock
        /\ mmu.timer.tac = last.v
        /\ mmu.timer.div = pre.timer.div
        /\ mmu.timer.div_clock = pre.timer.div_clock
        /\ mmu.timer.tma = pre.timer.tma
        /\ mmu.interrupt = pre.interrupt

\* C31 witness: the timer was running with clocks in both accumulators and
\* TIMA away from TMA when a write selected code 2
C31_Witness ==
    /\ last.op = "tac" /\ TacChanged /\ BitAnd(last.v, \h03) = 2
    /\ pre.timer.tma_clock.n # 0 /\ pre.timer.div_clock.n # 0
    /\ pre.timer.div # 0
    /\ pre.timer.tima # pre.timer.tma
    /\ mmu.timer.tima = \hab /\ mmu.timer.tma_clock.period = 64

---------------------------------------------------------------------------
(* SpecWram: work RAM behind the bus of the DMG fixture (header byte       *)
(* 0x0143 = 0x00, term GB).  The bus writes 0xFF70 and bytes at both ends  *)
(* of 0xC000-0xCFFF and of 0xD000-0xDFFF.  pre is the bus before the last  *)
(* operation, fed the number of operations.                                *)

\* Operations in one run
MaxWramOps == 3

\* The values written to 0xFF70
WramBankValues == {\h00, \h01, \h02, \h07, \h08, \hfd}

WramAddrs == {\hc000, \hcfff, \hd000, \hdfff}

WramBytes == {\h11, \h22}

WramInit ==
    /\ mmu = MmuPowerUp(FixtureCart)
    /\ cpu = CpuPowerUp
    /\ last = PowerUp
    /\ pre = MmuPowerUp(FixtureCart)
    /\ apu = ApuPowerUp(SampleRate)
    /\ host = HostPowerUp
    /\ fed = 0

\* MemoryManagementUnit::set of 0xff70
WramSelect ==
    \E v \in WramBankValues :
        /\ fed < MaxWramOps
        /\ mmu' = MmuSet(mmu, \hff70, v)
        /\ last' = [op |-> "bank", a |-> \hff70, v |-> v, r |-> 0]
        /\ pre' = mmu
        /\ fed' = fed + 1
        /\ UNCHANGED <<cpu, apu, host>>

\* MemoryManagementUnit::set of an address of work RAM
WramWrite ==
    \E a \in WramAddrs, v \in WramBytes :
        /\ fed < MaxWramOps
        /\ mmu' = MmuSet(mmu, a, v)
        /\ last' = [op |-> "set", a |-> a, v |-> v, r |-> 0]
        /\ pre' = mmu
        /\ fed' = fed + 1
        /\ UNCHANGED <<cpu, apu, host>>

WramNext == WramSelect \/ WramWrite

SpecWram == WramInit /\ [][WramNext]_vars

\* The bank that v selects: v & 7, with 0 taken as 1
BankOf(v) == IF v % 8 = 0 THEN 1 ELSE v % 8

\* The cell of the 32 KiB array that address a of work RAM reaches in bus
\* state m
WramCell(m, a) == IF a < \hd000 THEN a - \hc000 ELSE a - \hd000 + \h1000 * m.wram_bank

\* The parts of C32 that do not depend on the machine: the bank is in
\* 1..7, a write of 0xFF70 stores no byte, 0xC000-0xCFFF is bank 0, and a
\* write changes the one cell it addresses, in the bank selected
WramBanksApart ==
    /\ mmu.wram_bank \in 1..7
    /\ MmuGet(mmu, \hff70) = mmu.wram_bank
    /\ last.op = "bank" => mmu.wram = pre.wram
    /\ last.op = "set" =>
           /\ mmu.wram_bank = pre.wram_bank
           /\ last.a < \hd000 => WramCell(pre, last.a) < \h1000
           /\ last.a >= \hd000 =>
                  WramCell(pre, last.a) \div \h1000 = pre.wram_bank
           /\ MmuGet(mmu, last.a) = last.v
           /\ \A i \in (DOMAIN pre.wram \cup DOMAIN mmu.wram) \ {WramCell(pre, last.a)} :
                  MemGet(mmu.wram, i) = MemGet(pre.wram, i)

\* C32 (as stated): the bank at 0xD000-0xDFFF is in 1..7 on CGB and is
\* always 1 on DMG, where a write of 0xFF70 has no effect; on CGB the write
\* selects v & 7 with 0 taken as 1; 0xC000-0xCFFF is bank 0 and a write
\* leaves the bytes of the banks not selected as they were.
C32_WramBank ==
    /\ WramBanksApart
    /\ mmu.term = "GB" => mmu.wram_bank = 1
    /\ (last.op = "bank" /\ pre.term = "GB") => mmu = pre
    /\ (last.op = "bank" /\ pre.term = "GBC") => mmu.wram_bank = BankOf(last.v)

\* What the write of 0xFF70 does on the DMG fixture
WramSelectsOnDmg ==
    /\ mmu.term = "GB"
    /\ last.op = "bank" => mmu.wram_bank = BankOf(last.v)

---------------------------------------------------------------------------
(* SpecRtc: an MBC3 cartridge with its clock behind the bus.  The bus      *)
(* writes 0x00 and 0x01 to 0x6000-0x7FFF while the host's wall clock       *)
(* advances.  pre holds the cartridge before the last operation and the    *)
(* value of the write to 0x6000-0x7FFF before the last one (-1 if none);   *)
(* last.r is the value of the latest such write; fed counts the            *)
(* operations.                                                             *)

\* Operations in one run
MaxRtcOps == 5

RtcCart == CartPowerUp("Mbc3", 65536, 32768)

\* The values written to 0x6000-0x7FFF
RtcLatchValues == {\h00, \h01}

RtcLatchAddrs == {\h6000, \h7fff}

\* Seconds by which the wall clock advances in one step
RtcSeconds == {1, 3725}

RtcInit ==
    /\ mmu = MmuPowerUp(RtcCart)
    /\ cpu = CpuPowerUp
    /\ last = [op |-> "power_up", a |-> 0, v |-> 0, r |-> 0 - 1]
    /\ pre = [cart |-> RtcCart, prev |-> 0 - 1]
    /\ apu = ApuPowerUp(SampleRate)
    /\ host = HostPowerUp
    /\ fed = 0

\* MemoryManagementUnit::set of an address in 0x6000-0x7FFF
RtcLatchWrite ==
    \E a \in RtcLatchAddrs, v \in RtcLatchValues :
        /\ fed < MaxRtcOps
        /\ mmu' = MmuSet(mmu, a, v)
        /\ last' = [op |-> "set", a |-> a, v |-> v, r |-> v]
        /\ pre' = [cart |-> mmu.cartridge, prev |-> last.r]
        /\ fed' = fed + 1
        /\ UNCHANGED <<cpu, apu, host>>

\* The host's wall clock advances
RtcTime ==
    \E dt \in RtcSeconds :
        /\ fed < MaxRtcOps
        /\ mmu' = [mmu EXCEPT !.cartridge.elapsed = @ + dt]
        /\ last' = [last EXCEPT !.op = "time", !.a = 0, !.v = dt]
        /\ pre' = [pre EXCEPT !.cart = mmu.cartridge]
        /\ fed' = fed + 1
        /\ UNCHANGED <<cpu, apu, host>>

RtcNext == RtcLatchWrite \/ RtcTime

SpecRtc == RtcInit /\ [][RtcNext]_vars

\* C33 (as stated): the clock registers are latched from the wall clock
\* only by a write of 0x01 to 0x6000-0x7FFF that directly follows a write
\* of 0x00 to that range; every other write and the passing of time leave
\* them as they were.
C33_LatchPulse ==
    /\ last.op = "set" =>
           mmu.cartridge.rtc =
               (IF pre.prev = \h00 /\ last.v = \h01
                THEN RtcTic(pre.cart.rtc, pre.cart.elapsed) ELSE pre.cart.rtc)
    /\ last.op = "time" => mmu.cartridge.rtc = pre.cart.rtc

\* What the writes do: every write with bit 0 set latches, whatever write
\* came before; a write of 0x00 and the passing of time latch nothing
RtcLatchesOnBitZero ==
    /\ last.op = "set" =>
           mmu.cartridge.rtc =
               (IF last.v % 2 = 1
                THEN RtcTic(pre.cart.rtc, pre.cart.elapsed) ELSE pre.cart.rtc)
    /\ last.op = "time" => mmu.cartridge.rtc = pre.cart.rtc

\* Two writes of 0x01 in a row with time passing in between: the second
\* latches again
RtcLatchedTwice ==
    /\ last.op = "set" /\ last.v = \h01 /\ pre.prev = \h01
    /\ mmu.cartridge.rtc # pre.cart.rtc

---------------------------------------------------------------------------
(* SpecFrame: the powered APU fed with cycles.  The four channels are      *)
(* triggered with their length counters enabled and loaded with pre.lc,    *)
(* the envelopes of channels 1, 2 and 4 and the sweep of channel 1 run     *)
(* with period 7, so that the counters of the three timers count the       *)
(* clocks they receive.  fed is the number of cycles fed.                  *)

\* Ticks of the frame sequencer in one run
MaxFrameTicks == 20

\* Samples per second of the audio queue: one per tick of the sequencer
FrameRate == 512

\* Cycles fed in one call of Apu::next
FrameFeeds == {2048, 8192, 20480}

\* Length counts loaded before the run
FrameLengths == {3, 64}

RECURSIVE ApuWrites(_, _)
\* impl Memory for Apu: set, for a sequence of <<address, value>>; the
\* record is inspected before each write so that the writes are evaluated
\* in order (a sample rate of 0 is never used)
ApuWrites(p, ws) ==
    IF ws = << >> \/ p.sample_rate = 0 THEN p
    ELSE ApuWrites(ApuSet(p, Head(ws)[1], Head(ws)[2]), Tail(ws))

\* The writes that power the APU and start the four channels with length l
FrameSetup(l) ==
    << <<\hff26, \h80>>,
       <<\hff10, \h70>>, <<\hff11, 64 - l>>, <<\hff12, \h07>>, <<\hff14, \hc0>>,
       <<\hff16, 64 - l>>, <<\hff17, \h07>>, <<\hff19, \hc0>>,
       <<\hff1a, \h80>>, <<\hff1b, 256 - l>>, <<\hff1e, \hc0>>,
       <<\hff20, 64 - l>>, <<\hff21, \h07>>, <<\hff23, \hc0>> >>

FrameInit ==
    /\ mmu = MmuPowerUp(FixtureCart)
    /\ cpu = CpuPowerUp
    /\ last = PowerUp
    /\ \E l \in FrameLengths :
           /\ pre = [lc |-> l]
           /\ apu = ApuWrites(ApuPowerUp(FrameRate), FrameSetup(l))
    /\ host = HostPowerUp
    /\ fed = 0

\* Apu::next
FrameFeed ==
    \E c \in FrameFeeds :
        /\ fed + c <= MaxFrameTicks * Period(apu.reg)
        /\ apu' = ApuNext(apu, c)
        /\ last' = [op |-> "next", a |-> 0, v |-> c, r |-> 0]
        /\ fed' = fed + c
        /\ UNCHANGED <<mmu, cpu, host, pre>>

FrameNext == FrameFeed

SpecFrame == FrameInit /\ [][FrameNext]_vars

\* Ticks of the frame sequencer so far
FrameTicks == fed \div (CLOCK_FREQUENCY \div 512)

\* Clocks received by the length counters, the sweep and the envelopes in
\* the first n ticks: the ticks that arrive at steps 0, 2, 4, 6, at steps
\* 2, 6 and at step 7
LengthClocks(n) == n \div 2

SweepClocks(n) == (n + 2) \div 4

EnvelopeClocks(n) == (n + 1) \div 8

\* A length counter loaded with l after n clocks
LengthAfter(l, n) == IF n < l THEN l - n ELSE 0

\* C34: with the APU powered, every CPU_CLOCK/512 cycles fed produce one
\* tick of the frame sequencer, which advances the step modulo 8; the
\* length counters are clocked on steps 0, 2, 4, 6, the sweep of channel 1
\* on steps 2 and 6 and the envelopes on step 7, so eight ticks in a row
\* hold 4 length clocks, 2 sweep clocks and 1 envelope clock.
C34_FrameSequencer ==
    /\ apu.fs = FrameTicks % 8
    /\ apu.timer.n = fed % (CLOCK_FREQUENCY \div 512)
    /\ \A ch \in {apu.channel1, apu.channel2, apu.channel3, apu.channel4} :
           /\ ch.lc = LengthAfter(pre.lc, LengthClocks(FrameTicks))
           /\ GetTrigger(ch.reg) = (ch.lc # 0)
    /\ apu.channel1.fs.timer.n = SweepClocks(FrameTicks) % 7
    /\ \A ch \in {apu.channel1, apu.channel2, apu.channel4} :
           ch.ve.timer.n = EnvelopeClocks(FrameTicks) % 7
    /\ \A n \in 0..MaxFrameTicks :
           /\ LengthClocks(n + 8) - LengthClocks(n) = 4
           /\ SweepClocks(n + 8) - SweepClocks(n) = 2
           /\ EnvelopeClocks(n + 8) - EnvelopeClocks(n) = 1

\* Sixteen ticks have passed: 8 length clocks, 4 sweep clocks, 2 envelope
\* clocks
C34_Witness ==
    /\ FrameTicks = 16
    /\ apu.fs = 0
    /\ apu.channel3.lc = 56
    /\ apu.channel1.fs.timer.n = 4
    /\ apu.channel4.ve.timer.n = 2

---------------------------------------------------------------------------
(* SpecPower: the APU from construction, with writes of NR52, writes of    *)
(* other registers and of wave RAM, and steps.  pre holds the APU before   *)
(* the last operation and the number of times the power bit was cleared    *)
(* by a write; fed counts the operations.                                  *)

\* Operations in one run
MaxPowerOps == 4

\* Values written to NR52
PowerValues == {\h00, \h7f, \h80}

\* The other writes: NR10, NR14 with the trigger, NR32, NR50, NR51 and two
\* bytes of wave RAM
PowerWrites ==
    {<<\hff10, \h15>>, <<\hff14, \hc3>>, <<\hff1c, \h20>>, <<\hff24, \h77>>,
     <<\hff25, \hf3>>, <<\hff30, \h12>>, <<\hff3f, \hef>>}

\* Cycles fed in one call of Apu::next
PowerFeeds == {4096, 8192}

PowerInit ==
    /\ mmu = MmuPowerUp(FixtureCart)
    /\ cpu = CpuPowerUp
    /\ last = PowerUp
    /\ apu = ApuPowerUp(FrameRate)
    /\ pre = [apu |-> ApuPowerUp(FrameRate), offs |-> 0]
    /\ host = HostPowerUp
    /\ fed = 0

\* impl Memory for Apu: set of 0xff26
PowerSwitch ==
    \E v \in PowerValues :
        /\ fed < MaxPowerOps
        /\ apu' = ApuSet(apu, \hff26, v)
        /\ last' = [op |-> "nr52", a |-> \hff26, v |-> v, r |-> 0]
        /\ pre' = [apu |-> apu,
                   offs |-> pre.offs + (IF BitAnd(v, \h80) = 0 THEN 1 ELSE 0)]
        /\ fed' = fed + 1
        /\ UNCHANGED <<mmu, cpu, host>>

\* impl Memory for Apu: set of another address
PowerWrite ==
    \E w \in PowerWrites :
        /\ fed < MaxPowerOps
        /\ apu' = ApuSet(apu, w[1], w[2])
        /\ last' = [op |-> "set", a |-> w[1], v |-> w[2], r |-> 0]
        /\ pre' = [pre EXCEPT !.apu = apu]
        /\ fed' = fed + 1
        /\ UNCHANGED <<mmu, cpu, host>>

\* Apu::next
PowerFeed ==
    \E c \in PowerFeeds :
        /\ fed < MaxPowerOps
        /\ apu' = ApuNext(apu, c)
        /\ last' = [op |-> "next", a |-> 0, v |-> c, r |-> 0]
        /\ pre' = [pre EXCEPT !.apu = apu]
        /\ fed' = fed + 1
        /\ UNCHANGED <<mmu, cpu, host>>

PowerNext == PowerSwitch \/ PowerWrite \/ PowerFeed

SpecPower == PowerInit /\ [][PowerNext]_vars

\* The stored value of every register NR10-NR51 is zero
RegistersZero(p) ==
    /\ \A ch \in {p.channel1, p.channel2, p.channel3, p.channel4} :
           \A k \in 0..4 : GetNrx(ch, k) = 0
    /\ p.reg.nrx0 = 0
    /\ p.reg.nrx1 = 0

\* The stored value at an address of PowerWrites
StoredAt(p, a) ==
    CASE a \in \hff10..\hff14 -> GetNrx(p.channel1, a - \hff10)
      [] a \in \hff1a..\hff1e -> GetNrx(p.channel3, a - \hff1a)
      [] a = \hff24 -> p.reg.nrx0
      [] a = \hff25 -> p.reg.nrx1
      [] a \in \hff30..\hff3f -> MemGet(p.channel3.waveram, a - \hff30)

\* C35: a write of NR52 with bit 7 clear zeroes NR10-NR51 and leaves wave
\* RAM as it was; while the power is off, writes of every other address
\* and APU steps change nothing; once bit 7 is set again writes are stored.
C35_PowerOff ==
    /\ (last.op = "nr52" /\ BitAnd(last.v, \h80) = 0) =>
           /\ RegistersZero(apu)
           /\ ~GetPower(apu.reg)
           /\ apu.channel3.waveram = pre.apu.channel3.waveram
    /\ (last.op = "nr52" /\ BitAnd(last.v, \h80) # 0) => GetPower(apu.reg)
    /\ (last.op \in {"set", "next"} /\ ~GetPower(pre.apu.reg)) => apu = pre.apu
    /\ (last.op = "set" /\ GetPower(pre.apu.reg)) => StoredAt(apu, last.a) = last.v

\* A write is stored after the power went off and on again
C35_Witness ==
    /\ last.op = "set"
    /\ pre.offs > 0
    /\ GetPower(apu.reg)
    /\ StoredAt(apu, last.a) = last.v
    /\ apu # pre.apu

\* The power goes off with wave RAM written and registers set
PowerOffAfterWrites ==
    /\ last.op = "nr52"
    /\ ~GetPower(apu.reg)
    /\ GetPower(pre.apu.reg)
    /\ ~RegistersZero(pre.apu)
    /\ MemGet(apu.channel3.waveram, 0) = \h12

---------------------------------------------------------------------------
(* SpecMix: the powered APU with its four channels sounding, NR50 and      *)
(* NR51 written between steps of one tick.  Each tick queues one pair      *)
(* (left, right); the pairs are integers, the common factor                *)
(* (1/7) * (1/15) * 0.25 of the two volumes left out.  fed counts the      *)
(* operations.                                                             *)

\* Operations in one run
MaxMixOps == 4

\* Values written to NR50 and to NR51
MixVolumes == {\h07, \h70, \h35}

MixEnables == {\h00, \h01, \h10, \h24, \h42, \hff}

\* The writes that power the APU and start the four channels with the
\* volumes 15, 8 and 4 and the wave 0x5A
MixSetup ==
    << <<\hff26, \h80>>,
       <<\hff12, \hf0>>, <<\hff14, \h80>>,
       <<\hff17, \h80>>, <<\hff19, \h80>>,
       <<\hff30, \h5a>>, <<\hff1a, \h80>>, <<\hff1c, \h20>>, <<\hff1e, \h80>>,
       <<\hff21, \h40>>, <<\hff22, \h67>>, <<\hff23, \h80>> >>

MixInit ==
    /\ mmu = MmuPowerUp(FixtureCart)
    /\ cpu = CpuPowerUp
    /\ last = PowerUp
    /\ apu = ApuWrites(ApuPowerUp(FrameRate), MixSetup)
    /\ pre = ApuPowerUp(FrameRate)
    /\ host = HostPowerUp
    /\ fed = 0

\* impl Memory for Apu: set of NR50
MixSetVolume ==
    \E v \in MixVolumes :
        /\ fed < MaxMixOps
        /\ apu' = ApuSet(apu, \hff24, v)
        /\ last' = [op |-> "set", a |-> \hff24, v |-> v, r |-> 0]
        /\ pre' = apu
        /\ fed' = fed + 1
        /\ UNCHANGED <<mmu, cpu, host>>

\* impl Memory for Apu: set of NR51
MixSetEnable ==
    \E v \in MixEnables :
        /\ fed < MaxMixOps
        /\ apu' = ApuSet(apu, \hff25, v)
        /\ last' = [op |-> "set", a |-> \hff25, v |-> v, r |-> 0]
        /\ pre' = apu
        /\ fed' = fed + 1
        /\ UNCHANGED <<mmu, cpu, host>>

\* Apu::next for the cycles of one tick
MixFeed ==
    /\ fed < MaxMixOps
    /\ apu' = ApuNext(apu, Period(apu.reg))
    /\ last' = [op |-> "next", a |-> 0, v |-> Period(apu.reg), r |-> 0]
    /\ pre' = apu
    /\ fed' = fed + 1
    /\ UNCHANGED <<mmu, cpu, host>>

MixNext == MixSetVolume \/ MixSetEnable \/ MixFeed

SpecMix == MixInit /\ [][MixNext]_vars

\* The amplitude of channel i (1..4)
Ampl(p, i) ==
    CASE i = 1 -> p.channel1.ampl
      [] i = 2 -> p.channel2.ampl
      [] i = 3 -> p.channel3.ampl
      [] i = 4 -> p.channel4.ampl

\* The sum of the amplitudes of the channels whose bit i - 1 + shift of
\* NR51 is set
Gated(p, shift) ==
    (IF Bit(p.reg.nrx1, shift) = 1 THEN Ampl(p, 1) ELSE 0)
    + (IF Bit(p.reg.nrx1, shift + 1) = 1 THEN Ampl(p, 2) ELSE 0)
    + (IF Bit(p.reg.nrx1, shift + 2) = 1 THEN Ampl(p, 3) ELSE 0)
    + (IF Bit(p.reg.nrx1, shift + 3) = 1 THEN Ampl(p, 4) ELSE 0)

\* The pair queued by the last step
Queued == apu.buffer[Len(apu.buffer)]

\* C36 (as stated): bit i of NR51 gates channel i + 1 into the right
\* output and bit i + 4 into the left output; the right side is scaled by
\* bits 2-0 of NR50 and the left side by bits 6-4.
C36_Mixer ==
    last.op = "next" =>
        /\ Len(apu.buffer) = Len(pre.buffer) + 1
        /\ Queued[2] = Gated(apu, 0) * BitAnd(apu.reg.nrx0, \h07)
        /\ Queued[1] = Gated(apu, 4) * BitAnd(apu.reg.nrx0 \div 16, \h07)

\* What the mixer does: bits 3-0 of NR51 gate into the left output and
\* bits 7-4 into the right; left is scaled by bits 6-4 of NR50, right by
\* bits 2-0
MixerSidesExchanged ==
    last.op = "next" =>
        /\ Len(apu.buffer) = Len(pre.buffer) + 1
        /\ Queued[1] = Gated(apu, 0) * BitAnd(apu.reg.nrx0 \div 16, \h07)
        /\ Queued[2] = Gated(apu, 4) * BitAnd(apu.reg.nrx0, \h07)

\* NR51 = 0x01 and NR50 = 0x07 with channel 1 sounding: nothing is queued
\* on either side
MixerSilent ==
    /\ last.op = "next"
    /\ apu.reg.nrx1 = \h01
    /\ apu.reg.nrx0 = \h07
    /\ apu.channel1.ampl # 0
    /\ Queued = <<0, 0>>

---------------------------------------------------------------------------
(* SpecWave: the wave channel of the powered APU, its wave RAM filled,     *)
(* played one position at a time, with writes of NR32 and triggers in      *)
(* between.  pre holds the channel before the last operation; fed counts   *)
(* the positions played.                                                   *)

\* Positions played in one run
MaxWaveSteps == 34

\* Two fillings of wave RAM: byte k of filling f
WaveByte(f, k) == (k * (16 * f + 3) + 27 * f + 1) % 256

WaveFillings == {1, 2}

\* Values written to NR32: the four volume codes
WaveVolumes == {\h00, \h20, \h40, \h60}

\* The writes that power the APU, fill wave RAM and start the channel
WaveSetup(f) ==
    << <<\hff26, \h80>> >>
    \o [k \in 1..16 |-> <<\hff30 + k - 1, WaveByte(f, k - 1)>>]
    \o << <<\hff1a, \h80>>, <<\hff1c, \h20>>, <<\hff1e, \h80>> >>

WaveInit ==
    /\ mmu = MmuPowerUp(FixtureCart)
    /\ cpu = CpuPowerUp
    /\ last = PowerUp
    /\ \E f \in WaveFillings : apu = ApuWrites(ApuPowerUp(FrameRate), WaveSetup(f))
    /\ pre = ChannelPowerUp("Wave")
    /\ host = HostPowerUp
    /\ fed = 0

\* ChannelWave::next for the cycles of one position
WaveStep ==
    /\ fed < MaxWaveSteps
    /\ apu' = [apu EXCEPT !.channel3 = ChannelWaveNext(@, apu.channel3.timer.period)]
    /\ last' = [op |-> "step", a |-> 0, v |-> apu.channel3.timer.period,
                r |-> apu.channel3.waveidx]
    /\ pre' = apu.channel3
    /\ fed' = fed + 1
    /\ UNCHANGED <<mmu, cpu, host>>

\* impl Memory for Apu: set of NR32
WaveSetVolume ==
    \E v \in WaveVolumes :
        /\ apu' = ApuSet(apu, \hff1c, v)
        /\ last' = [op |-> "set", a |-> \hff1c, v |-> v, r |-> 0]
        /\ pre' = apu.channel3
        /\ UNCHANGED <<mmu, cpu, host, fed>>

\* impl Memory for Apu: set of NR34 with the trigger bit
WaveTrigger ==
    /\ apu' = ApuSet(apu, \hff1e, \h80)
    /\ last' = [op |-> "trigger", a |-> \hff1e, v |-> \h80, r |-> 0]
    /\ pre' = apu.channel3
    /\ UNCHANGED <<mmu, cpu, host, fed>>

WaveNext == WaveStep \/ WaveSetVolume \/ WaveTrigger

SpecWave == WaveInit /\ [][WaveNext]_vars

\* The shift of the volume code in NR32
Nr32Shift(ch) ==
    CASE BitAnd(ch.reg.nrx2 \div 32, 3) = 0 -> 4
      [] BitAnd(ch.reg.nrx2 \div 32, 3) = 1 -> 0
      [] BitAnd(ch.reg.nrx2 \div 32, 3) = 2 -> 1
      [] BitAnd(ch.reg.nrx2 \div 32, 3) = 3 -> 2

HighNibble(b) == b \div 16

LowNibble(b) == b % 16

\* C37 (as stated): at position p the wave channel outputs the high nibble
\* of waveRAM[p/2] when p is even and the low nibble when p is odd,
\* shifted right by 4/0/1/2 for volume code 0/1/2/3; the position stays in
\* 0..31, advances by one and a trigger resets it to 0.
C37_WavePlay ==
    /\ apu.channel3.waveidx \in 0..31
    /\ last.op = "trigger" => apu.channel3.waveidx = 0
    /\ last.op = "step" =>
           /\ apu.channel3.waveidx = (last.r + 1) % 32
           /\ apu.channel3.ampl =
                  (IF last.r % 2 = 0
                   THEN HighNibble(MemGet(pre.waveram, last.r \div 2))
                   ELSE LowNibble(MemGet(pre.waveram, last.r \div 2)))
                  \div 2 ^ Nr32Shift(pre)

\* What the channel does: the low nibble at the even positions, the high
\* nibble at the odd ones; position, shift and trigger as stated
WaveLowNibbleFirst ==
    /\ apu.channel3.waveidx \in 0..31
    /\ last.op = "trigger" => apu.channel3.waveidx = 0
    /\ last.op = "step" =>
           /\ apu.channel3.waveidx = (last.r + 1) % 32
           /\ apu.channel3.ampl =
                  (IF last.r % 2 = 0
                   THEN LowNibble(MemGet(pre.waveram, last.r \div 2))
                   ELSE HighNibble(MemGet(pre.waveram, last.r \div 2)))
                  \div 2 ^ Nr32Shift(pre)

\* Position 0 played at full volume gives the low nibble of byte 0
WaveStartsLow ==
    /\ last.op = "step"
    /\ last.r = 0
    /\ Nr32Shift(pre) = 0
    /\ apu.channel3.ampl = LowNibble(MemGet(pre.waveram, 0))
    /\ apu.channel3.ampl # HighNibble(MemGet(pre.waveram, 0))

\* The position wraps from 31 to 0
WaveWraps == last.op = "step" /\ last.r = 31 /\ apu.channel3.waveidx = 0

---------------------------------------------------------------------------
(* SpecJoypad: the joypad behind the bus: writes of the selector to        *)
(* 0xFF00, keys going down and up, IF cleared by the program.  pre holds   *)
(* the bus before the last operation, in key the key of the last keydown   *)
(* and in before the value 0xFF00 read ahead of that keydown if the key    *)
(* was up (-1 otherwise, and after a write of the selector or the keyup    *)
(* of another key); fed counts the operations.                             *)

\* Operations in one run
MaxJoyOps == 5

\* Selector values written to 0xFF00
JoySelectors == {\h00, \h10, \h20, \h30}

\* JoypadKey: Right, Up, A, Start
JoyKeys == {\h01, \h04, \h10, \h80}

JoyInit ==
    /\ mmu = MmuPowerUp(FixtureCart)
    /\ cpu = CpuPowerUp
    /\ last = PowerUp
    /\ pre = [mmu |-> MmuPowerUp(FixtureCart), before |-> 0 - 1, key |-> 0]
    /\ apu = ApuPowerUp(SampleRate)
    /\ host = HostPowerUp
    /\ fed = 0

\* MemoryManagementUnit::set of 0xff00
JoySelect ==
    \E v \in JoySelectors :
        /\ fed < MaxJoyOps
        /\ mmu' = MmuSet(mmu, \hff00, v)
        /\ last' = [op |-> "select", a |-> \hff00, v |-> v, r |-> 0]
        /\ pre' = [mmu |-> mmu, before |-> 0 - 1, key |-> 0]
        /\ fed' = fed + 1
        /\ UNCHANGED <<cpu, apu, host>>

\* Joypad::keydown
JoyKeyDown ==
    \E k \in JoyKeys :
        /\ fed < MaxJoyOps
        /\ mmu' = JoypadKeydown(mmu, k)
        /\ last' = [op |-> "keydown", a |-> 0, v |-> k, r |-> 0]
        /\ pre' = [mmu |-> mmu,
                   before |-> IF BitAnd(mmu.joypad.matrix, k) # 0
                              THEN MmuGet(mmu, \hff00) ELSE 0 - 1,
                   key |-> k]
        /\ fed' = fed + 1
        /\ UNCHANGED <<cpu, apu, host>>

\* Joypad::keyup; last.r is 1 when the key is the one of the last keydown
JoyKeyUp ==
    \E k \in JoyKeys :
        /\ fed < MaxJoyOps
        /\ mmu' = JoypadKeyup(mmu, k)
        /\ last' = [op |-> "keyup", a |-> 0, v |-> k,
                    r |-> IF pre.key = k THEN 1 ELSE 0]
        /\ pre' = IF pre.key = k THEN [pre EXCEPT !.mmu = mmu]
                   ELSE [mmu |-> mmu, before |-> 0 - 1, key |-> 0]
        /\ fed' = fed + 1
        /\ UNCHANGED <<cpu, apu, host>>

\* The program clears IF
JoyClearIf ==
    /\ fed < MaxJoyOps
    /\ mmu.interrupt # 0
    /\ mmu' = MmuSet(mmu, \hff0f, \h00)
    /\ last' = [op |-> "set", a |-> \hff0f, v |-> 0, r |-> 0]
    /\ pre' = [pre EXCEPT !.mmu = mmu]
    /\ fed' = fed + 1
    /\ UNCHANGED <<cpu, apu, host>>

JoyNext == JoySelect \/ JoyKeyDown \/ JoyKeyUp \/ JoyClearIf

SpecJoypad == JoyInit /\ [][JoyNext]_vars

\* The value read at 0xFF00
P1 == MmuGet(mmu, \hff00)

\* The keys: nothing is raised by keyup, IF bit 4 by keydown, and keydown
\* then keyup of a key that was up restores the value read
JoyKeysRule ==
    /\ last.op = "keydown" =>
           /\ Bit(mmu.interrupt, 4) = 1
           /\ mmu.joypad.matrix = BitAnd(pre.mmu.joypad.matrix, \hff - last.v)
    /\ last.op = "keyup" =>
           /\ mmu.interrupt = pre.mmu.interrupt
           /\ mmu.joypad.matrix = BitOr(pre.mmu.joypad.matrix, last.v)
    /\ (last.op = "keyup" /\ last.r = 1 /\ pre.before # 0 - 1) => P1 = pre.before

\* The group read with one group selected
JoyGroupRule ==
    /\ BitAnd(P1, \h30) = BitAnd(mmu.joypad.select, \h30)
    /\ mmu.joypad.select = \h20 => P1 % 16 = mmu.joypad.matrix % 16
    /\ mmu.joypad.select = \h10 => P1 % 16 = mmu.joypad.matrix \div 16

\* C38 (as stated): 0xFF00 reads bits 5-4 as written and the active-low
\* keys of the selected group in bits 3-0; with no key pressed bits 3-0
\* read 0xF for every selector, also when neither group is selected;
\* keydown then keyup restores the value read; keydown raises IF bit 4 and
\* keyup raises nothing.
C38_Joypad ==
    /\ JoyGroupRule
    /\ mmu.joypad.matrix = \hff => P1 % 16 = \h0f
    /\ JoyKeysRule

\* What the register does: as stated with a group selected; with neither
\* group selected it reads the selector alone, bits 3-0 zero
JoypadNeitherReadsSelector ==
    /\ JoyGroupRule
    /\ (mmu.joypad.matrix = \hff /\ mmu.joypad.select # \h30) => P1 % 16 = \h0f
    /\ mmu.joypad.select = \h30 => P1 = \h30
    /\ JoyKeysRule

\* Neither group selected, no key pressed: bits 3-0 read 0
JoypadNeitherLow ==
    /\ mmu.joypad.select = \h30
    /\ mmu.joypad.matrix = \hff
    /\ P1 % 16 = 0

\* A key went down and up again with IF clear in between
JoypadKeyReleased ==
    /\ last.op = "keyup"
    /\ last.r = 1
    /\ pre.before # 0 - 1
    /\ mmu.interrupt = 0
    /\ P1 = pre.before

---------------------------------------------------------------------------
(* The speed switch and the step of the CPU (SpecSpeed)                    *)

\* The last step of MotherBoard::do_cycle found 0x10 at PC and did not
\* execute it: the CPU dispatched an interrupt or stayed halted
StopNotExecuted ==
    /\ last.op = "do_cycle"
    /\ AtStop
    /\ StepKind(pre) \in {"dispatch", "halted"}

\* C39 (as stated): the speed switch is performed only in a step in which
\* the CPU executes STOP; a step that services an interrupt, or finds the
\* CPU halted, while the byte at PC is 0x10 leaves the speed and the
\* pending-shift flag unchanged.
C39_SwitchOnlyOnStop ==
    /\ (last.op = "do_cycle" /\ mmu.speed # pre.mmu.speed) =>
           (AtStop /\ StepKind(pre) = "ex")
    /\ StopNotExecuted =>
           (mmu.speed = pre.mmu.speed /\ mmu.shift = pre.mmu.shift)

\* What the step does: the byte at PC is tested before Cpu::next, so the
\* switch is made whichever way Cpu::next leaves
SwitchWhateverTheStep ==
    (last.op = "do_cycle" /\ AtStop /\ pre.mmu.shift) =>
        (mmu.speed = OtherSpeed(pre.mmu.speed) /\ ~mmu.shift)

\* The speed was switched in a step that dispatched the joypad interrupt
\* with STOP at PC
SwitchedWhileDispatching ==
    /\ StopNotExecuted
    /\ StepKind(pre) = "dispatch"
    /\ pre.mmu.shift
    /\ mmu.speed = OtherSpeed(pre.mmu.speed)
    /\ cpu.reg.pc = \h0060

---------------------------------------------------------------------------
(* SpecExit: the UI thread (real_main) and the emulator thread (run_cpu)   *)
(* from the start of the two loops to the return of both.  In host:        *)
(*   ui        where the UI thread is: "poll" (poll_events), "recv"        *)
(*             (receiver2.recv), "drop" (drop(sender1)), "join", "exited"  *)
(*   emu       where the emulator thread is: "run" (the inner loop),       *)
(*             "events" (the try_recv loop), "wait" (periodic.recv),       *)
(*             "save" (cartridge.sav), "done"                              *)
(*   os        the window events not yet polled                            *)
(*   events    GBEvents in the channel of sender1, sender1 whether it is   *)
(*             still alive                                                 *)
(*   frame     whether the sync_channel(1) of sender2 holds a frame        *)
(*   lcd       whether the LCD is on; dots the clocks into the frame       *)
(*   saves     calls of Cartridge::sav, dropped whether a frame was        *)
(*             dropped, after the batches run since sender1 was dropped    *)
(*   batches   the batches run with the LCD on while sender1 was alive     *)
(* The inner loop of run_cpu is one step: it runs the clocks of a batch,   *)
(* in which the PPU completes at most one frame, and none with the LCD     *)
(* off.  With the LCD on the emulator thread is stopped after              *)
(* MaxExitBatches batches if the user has not asked to stop, and MaxLag    *)
(* batches later if the UI thread has not dropped sender1 by then; with    *)
(* the LCD off it runs without bound.                                      *)

\* run_cpu: waitticks, (4194304 / 1000 * 16).round()
BatchClocks == 67109

\* Batches run before the user asks to stop
MaxExitBatches == 6

\* Batches run after the user asked to stop while sender1 is alive
MaxLag == 3

\* Keys pressed in one run
MaxKeys == 1

\* Clocks into the frame at the start
ExitDots == {0, 30000, 69000}

ExitPowerUp(lcd, dots) ==
    [ui |-> "poll", emu |-> "run", os |-> << >>, events |-> 0, sender1 |-> TRUE,
     frame |-> FALSE, lcd |-> lcd, dots |-> dots, saves |-> 0, dropped |-> FALSE,
     requested |-> FALSE, keys |-> 0, batches |-> 0, after |-> 0]

ExitInit ==
    /\ mmu = MmuPowerUp(FixtureCart)
    /\ cpu = CpuPowerUp
    /\ apu = ApuPowerUp(SampleRate)
    /\ last = PowerUp
    /\ pre = 0
    /\ fed = 0
    /\ \E lcd \in BOOLEAN, dots \in ExitDots : host = ExitPowerUp(lcd, dots)

\* The user closes the window or presses Escape
UserClose ==
    /\ ~host.requested
    /\ host.ui \in {"poll", "recv"}
    /\ host' = [host EXCEPT !.os = Append(@, "close"), !.requested = TRUE]
    /\ last' = [last EXCEPT !.op = "close"]
    /\ UNCHANGED <<mmu, cpu, apu, pre, fed>>

\* The user presses a key of the joypad
UserKey ==
    /\ ~host.requested
    /\ host.keys < MaxKeys
    /\ host' = [host EXCEPT !.os = Append(@, "key"), !.keys = @ + 1]
    /\ last' = [last EXCEPT !.op = "key"]
    /\ UNCHANGED <<mmu, cpu, apu, pre, fed>>

\* The events of a kind in the queue
CountOf(q, kind) == Cardinality({i \in 1..Len(q) : q[i] = kind})

\* real_main: poll_events and the test of stop
UiPoll ==
    /\ host.ui = "poll"
    /\ host' = [host EXCEPT !.os = << >>,
                            !.events = @ + CountOf(host.os, "key"),
                            !.ui = IF CountOf(host.os, "close") > 0 THEN "drop"
                                   ELSE "recv"]
    /\ last' = [last EXCEPT !.op = "poll"]
    /\ UNCHANGED <<mmu, cpu, apu, pre, fed>>

\* real_main: receiver2.recv(), which returns with a frame, or with Err
\* once the emulator thread has returned and dropped sender2
UiRecv ==
    /\ host.ui = "recv"
    /\ host.frame \/ host.emu = "done"
    /\ host' = IF host.frame THEN [host EXCEPT !.frame = FALSE, !.ui = "poll"]
               ELSE [host EXCEPT !.ui = "drop"]
    /\ last' = [last EXCEPT !.op = "recv"]
    /\ UNCHANGED <<mmu, cpu, apu, pre, fed>>

\* real_main: drop(sender1)
UiDrop ==
    /\ host.ui = "drop"
    /\ host' = [host EXCEPT !.sender1 = FALSE, !.ui = "join"]
    /\ last' = [last EXCEPT !.op = "drop"]
    /\ UNCHANGED <<mmu, cpu, apu, pre, fed>>

\* real_main: cputhread.join()
UiJoin ==
    /\ host.ui = "join"
    /\ host.emu = "done"
    /\ host' = [host EXCEPT !.ui = "exited"]
    /\ last' = [last EXCEPT !.op = "join"]
    /\ UNCHANGED <<mmu, cpu, apu, pre, fed>>

\* Whether the PPU completes a frame in the batch
FrameInBatch(h) == h.lcd /\ h.dots + BatchClocks >= FrameDots

\* run_cpu: the inner loop, with try_send of the frame completed in it: the
\* frame is queued, or dropped when the channel is full; the thread leaves
\* the outer loop when the receiver is gone
EmuBatch ==
    /\ host.emu = "run"
    /\ \/ ~host.sender1
       \/ ~host.lcd
       \/ host.batches < (IF host.requested THEN MaxExitBatches + MaxLag
                          ELSE MaxExitBatches)
    /\ host' = [host EXCEPT
                   !.dots = IF host.lcd THEN (@ + BatchClocks) % FrameDots ELSE @,
                   !.frame = @ \/ (FrameInBatch(host) /\ host.ui # "exited"),
                   !.dropped = @ \/ (FrameInBatch(host) /\ host.frame),
                   !.emu = IF FrameInBatch(host) /\ host.ui = "exited" THEN "save"
                           ELSE "events",
                   !.batches = IF host.sender1 /\ host.lcd THEN @ + 1 ELSE @,
                   !.after = IF host.sender1 THEN 0 ELSE 1]
    /\ last' = [last EXCEPT !.op = "batch"]
    /\ UNCHANGED <<mmu, cpu, apu, pre, fed>>

\* run_cpu: one try_recv of the inner loop 'recv
EmuEvent ==
    /\ host.emu = "events"
    /\ host' = IF host.events > 0 THEN [host EXCEPT !.events = @ - 1]
               ELSE IF ~host.sender1 THEN [host EXCEPT !.emu = "save"]
               ELSE [host EXCEPT !.emu = "wait"]
    /\ last' = [last EXCEPT !.op = "try_recv"]
    /\ UNCHANGED <<mmu, cpu, apu, pre, fed>>

\* run_cpu: periodic.recv()
EmuWait ==
    /\ host.emu = "wait"
    /\ host' = [host EXCEPT !.emu = "run"]
    /\ last' = [last EXCEPT !.op = "wait"]
    /\ UNCHANGED <<mmu, cpu, apu, pre, fed>>

\* run_cpu: cpu.mmu.cartridge.sav() and the return
EmuSave ==
    /\ host.emu = "save"
    /\ host' = [host EXCEPT !.saves = @ + 1, !.emu = "done"]
    /\ last' = [last EXCEPT !.op = "sav"]
    /\ UNCHANGED <<mmu, cpu, apu, pre, fed>>

ExitNext ==
    \/ UserClose \/ UserKey
    \/ UiPoll \/ UiRecv \/ UiDrop \/ UiJoin
    \/ EmuBatch \/ EmuEvent \/ EmuWait \/ EmuSave

SpecExit == ExitInit /\ [][ExitNext]_vars

\* The two threads are scheduled fairly and the periodic timer keeps
\* ticking; nothing is assumed of the user
SpecExitFair ==
    /\ SpecExit
    /\ WF_vars(UiPoll) /\ WF_vars(UiRecv) /\ WF_vars(UiDrop) /\ WF_vars(UiJoin)
    /\ WF_vars(EmuBatch) /\ WF_vars(EmuEvent) /\ WF_vars(EmuWait) /\ WF_vars(EmuSave)

\* Both threads have returned and the cartridge was saved once
ExitDone == host.ui = "exited" /\ host.emu = "done" /\ host.saves = 1

\* The save is called at most once, exactly once by the time the emulator
\* thread returns, and within one batch of the drop of sender1; the
\* emulator thread is never waiting for the frame channel
ExitSafe ==
    /\ host.saves \in {0, 1}
    /\ (host.emu = "done") = (host.saves = 1)
    /\ host.after = 1 => host.emu \in {"events", "save", "done"}
    /\ host.emu \in {"run", "events", "wait", "save", "done"}

\* C40 (as stated): under fair scheduling of the two threads, once the user
\* has asked to stop, the UI loop exits, the emulator thread sees the
\* event channel disconnected, leaves its loop and saves the cartridge
\* exactly once, whether or not frames are being produced.
C40_StopTerminates == [] ExitSafe /\ (host.requested ~> ExitDone)

\* What holds: the same while the emulator is producing frames
ExitWhileFramesArrive == [] ExitSafe /\ ((host.requested /\ host.lcd) ~> ExitDone)

\* The user has asked to stop, the LCD is off, and the UI thread waits in
\* recv for a frame with the close event unpolled
UiWaitsForFrame ==
    /\ host.requested
    /\ ~host.lcd
    /\ host.ui = "recv"
    /\ ~host.frame
    /\ CountOf(host.os, "close") = 1
    /\ host.saves = 0

\* A frame was dropped because the one before was not yet taken
FrameDropped == host.dropped /\ host.frame /\ host.emu = "events"

====
